---- MODULE Spec2Model ----
(***************************************************************************)
(* Duration metric producer of statsd (DurationMetricProducer.cpp) as a    *)
(* state machine.  Time is in integer ticks standing for nanoseconds; the  *)
(* producer is the one of a metric without activations (always active),    *)
(* with an unsliced condition, no state slicing, no sampling, no upload    *)
(* threshold, no anomaly tracker, and with dimensions_in_what equal to the *)
(* internal dimensions (mUseWhatDimensionAsInternalDimension), so that     *)
(* each duration tracker holds the starts of exactly one key.              *)
(*                                                                         *)
(* The duration trackers (OringDurationTracker, MaxDurationTracker), the   *)
(* base class MetricProducer and StatsdStats are defined outside           *)
(* DurationMetricProducer.cpp; what the producer calls of them follows     *)
(* their documented behaviour.  The variables and definitions named g...   *)
(* are history: they record what the events imply, for the properties to   *)
(* compare with what the producer computed.                                *)
(***************************************************************************)
EXTENDS Integers, Sequences, FiniteSets, TLC

\* ------------------------------------------------------------------ bounds
NumDims == 2        \* number of distinct whatKeys the events may carry
MaxTime == 5        \* last tick at which an event may arrive
MaxRefs == 2        \* most starts of one key that are outstanding at once
MaxPartial == 1     \* most dumps that close a partial bucket
MaxPastBuckets == 3 \* most past buckets an anomaly tracker stores
MaxBucketNum == 4   \* last bucket number an anomaly tracker is told of
MaxValue == 2       \* largest value of a key in a bucket
MaxSec == 3         \* last second at which an anomaly is looked for
MaxRefractory == 2  \* longest refractory period of an alert, in seconds
MaxEventTime == 2   \* last elapsed time of an atom handed to the metrics manager

\* ----------------------------------------------- configuration of the metric
\* The limits of keys are scaled down with the number of keys: the soft
\* limit stays at or below every hard limit, as it does in statsd.
TimeBase == 1       \* mTimeBaseNs
BucketSize == 2     \* mBucketSizeNs
kDimensionKeySizeSoftLimit == 1

Dims == 1..NumDims
StaleTimes == 0..(TimeBase - 1)

kUnknown == "kUnknown"
kFalse == "kFalse"
kTrue == "kTrue"

SUM == "SUM"
MAX_SPARSE == "MAX_SPARSE"

mStartIndex == "start"
mStopIndex == "stop"
mStopAllIndex == "stopAll"

VARIABLES
    mAggregationType,                   \* DurationMetric.aggregation_type
    mNested,                            \* nesting of the "what" predicate
    mDimensionHardLimit,                \* clamped max_dimensions_per_bucket
    mCondition,                         \* ConditionState of the metric
    mIsActive,                          \* activation state of the metric
    mCurrentBucketStartTimeNs,
    mCurrentBucketNum,
    mCurrentSlicedDurationTrackerMap,   \* whatKey -> duration tracker
    mPastBuckets,                       \* key -> sequence of DurationBucket
    mHasHitGuardrail,
    now,                                \* timestamp of the latest event
    ev,                                 \* history: the latest event
    gAllStarts,                         \* history: start events not yet stopped
    gAccStarts,                         \* history: accepted starts not yet stopped
    gCur,                               \* history: live time in the current bucket
    gPast,                              \* history: live time in the retained past
    gRun,                               \* history: live time of the run under way
    gBest,                              \* history: longest run completed in the bucket
    gExp,                               \* history: the past buckets to expect
    gPartials,                          \* history: dumps that closed a partial bucket
    hardDimensionLimitReached,          \* StatsdStats: the metric has dropped a key
    report,                             \* what the latest operation wrote, if a dump
    gDropPending,                       \* history: a key was dropped since the last dump
    anomalyTracker,                     \* the members of an AnomalyTracker
    aev,                                \* history: the latest anomaly-tracker operation
    gAnomaly,                           \* history: the buckets and declarations told of
    manager,                            \* the members of a MetricsManager and what it owns
    mev,                                \* history: the latest atom and the calls made for it
    owner,                              \* a MetricsManager with the producers it owns
    oev,                                \* history: the latest operation of that manager
    updated,                            \* a MetricsManager whose configuration is updated
    uev,                                \* history: the latest update and what it found
    lifecycle,                          \* a configuration's manager and what it has registered
    lev,                                \* history: the latest step of that configuration
    sources,                            \* the uid allow-list, its mutex and the two threads
    sev,                                \* history: the latest list completed and decision made
    silos,                              \* two configurations and the StatsdStats they share
    xev,                                \* history: the latest operation on either configuration
    keyed,                              \* a count metric sliced by a field of an attribution chain
    kev,                                \* history: the chains matched and the keys made of them
    sampled,                            \* a duration metric with dimensional sampling
    zev,                                \* history: the latest event handed to it
    gauge,                              \* a pushed gauge metric and its sliced condition
    gev,                                \* history: the atoms it was handed and its first report
    further                             \* the components of the later sections, one field each

\* The components modelled apart from the single producer, the anomaly
\* tracker and the manager fed atoms.
Later == <<keyed, kev, sampled, zev, gauge, gev>>
Others == <<owner, oev, updated, uev, lifecycle, lev, sources, sev, silos, xev, Later, further>>

vars == <<mAggregationType, mNested, mDimensionHardLimit, mCondition, mIsActive,
          mCurrentBucketStartTimeNs, mCurrentBucketNum,
          mCurrentSlicedDurationTrackerMap, mPastBuckets, mHasHitGuardrail,
          now, ev, gAllStarts, gAccStarts, gCur, gPast, gRun, gBest, gExp, gPartials,
          hardDimensionLimitReached, report, gDropPending,
          anomalyTracker, aev, gAnomaly, manager, mev, Others>>

Max(a, b) == IF a >= b THEN a ELSE b
Min(a, b) == IF a <= b THEN a ELSE b

RECURSIVE SumDurations(_)
SumDurations(buckets) ==
    IF buckets = <<>> THEN 0
    ELSE Head(buckets).mDuration + SumDurations(Tail(buckets))

\* ------------------------------------------------------- duration trackers
\* A tracker holds the starts of its key: idle (no start outstanding),
\* running (starts outstanding, condition true) or paused (starts
\* outstanding, condition false), with the count of outstanding starts.

\* The tracker DurationMetricProducer::createDurationTracker constructs.
NewTracker(type, bucketStart, bucketNum) ==
    [type |-> type, state |-> "idle", refcount |-> 0, mLastStartTime |-> 0,
     lastDuration |-> 0, mDuration |-> 0,
     mCurrentBucketStartTimeNs |-> bucketStart, mCurrentBucketNum |-> bucketNum]

\* The time a running tracker has accrued since it last (re)started.
Accrued(tr, t) == IF tr.state = "running" THEN t - tr.mLastStartTime ELSE 0

\* DurationTracker::noteStart
noteStart(tr, condition, t) ==
    IF tr.state = "idle"
    THEN [tr EXCEPT !.state = IF condition THEN "running" ELSE "paused",
                    !.refcount = 1,
                    !.mLastStartTime = IF condition THEN t ELSE @]
    ELSE [tr EXCEPT !.refcount = @ + 1]

\* The run of the key ends at t: SUM adds the accrued time to the bucket,
\* MAX_SPARSE keeps the longest run completed in the bucket.
EndRun(tr, t) ==
    LET run == tr.lastDuration + Accrued(tr, t)
    IN [tr EXCEPT !.state = "idle", !.refcount = 0, !.lastDuration = 0,
                  !.mDuration = IF tr.type = "oring" THEN @ + Accrued(tr, t)
                                ELSE Max(@, run)]

\* DurationTracker::noteStop
noteStop(tr, t, stopAll) ==
    IF tr.state = "idle" THEN tr
    ELSE IF stopAll \/ ~mNested \/ tr.refcount - 1 <= 0
         THEN EndRun(tr, t)
         ELSE [tr EXCEPT !.refcount = @ - 1]

\* DurationTracker::noteStopAll
noteStopAll(tr, t) == noteStop(tr, t, TRUE)

\* DurationTracker::onConditionChanged
onConditionChanged(tr, condition, t) ==
    IF tr.state = "running" /\ ~condition
    THEN [tr EXCEPT !.state = "paused",
                    !.mDuration = IF tr.type = "oring" THEN @ + Accrued(tr, t) ELSE @,
                    !.lastDuration = IF tr.type = "max" THEN @ + Accrued(tr, t) ELSE @]
    ELSE IF tr.state = "paused" /\ condition
         THEN [tr EXCEPT !.state = "running", !.mLastStartTime = t]
         ELSE tr

\* DurationTracker::hasAccumulatedDuration
hasAccumulatedDuration(tr) == tr.state # "idle" \/ tr.mDuration > 0

\* DurationTracker::getCurrentBucketEndTimeNs
TrackerBucketEnd(tr) == TimeBase + (tr.mCurrentBucketNum + 1) * BucketSize

DurationBucket(start, end, duration) ==
    [mBucketStartNs |-> start, mBucketEndNs |-> end, mDuration |-> duration]

\* DurationTracker::flushCurrentBucket: closes the tracker's bucket at
\* eventTimeNs.  Result: the tracker afterwards, the past buckets it emits,
\* and whether its owner may erase it.
flushCurrentBucket(tr, eventTimeNs) ==
    LET fullBucketEnd == TrackerBucketEnd(tr)
        isFullBucket == eventTimeNs >= fullBucketEnd
        numBucketsForward ==
            IF isFullBucket THEN 1 + (eventTimeNs - fullBucketEnd) \div BucketSize ELSE 0
        currentBucketEndTimeNs == IF isFullBucket THEN fullBucketEnd ELSE eventTimeNs
        newStart == IF isFullBucket
                    THEN fullBucketEnd + (numBucketsForward - 1) * BucketSize
                    ELSE eventTimeNs
        running == tr.state = "running"
        \* SUM: the part of a running interval inside the closing bucket
        closing == IF tr.type = "oring"
                   THEN tr.mDuration + Accrued(tr, currentBucketEndTimeNs)
                   ELSE tr.mDuration
        first == IF closing > 0
                 THEN <<DurationBucket(tr.mCurrentBucketStartTimeNs,
                                       currentBucketEndTimeNs, closing)>>
                 ELSE <<>>
        \* SUM: a running interval fills every bucket it spans entirely
        filling == IF tr.type = "oring" /\ running /\ numBucketsForward >= 2
                   THEN [i \in 1..(numBucketsForward - 1) |->
                            DurationBucket(fullBucketEnd + BucketSize * (i - 1),
                                           fullBucketEnd + BucketSize * i,
                                           BucketSize)]
                   ELSE <<>>
    IN [tr |-> [tr EXCEPT !.mDuration = 0,
                          !.mCurrentBucketStartTimeNs = newStart,
                          !.mCurrentBucketNum = @ + numBucketsForward,
                          !.mLastStartTime =
                              IF tr.type = "oring" /\ running THEN newStart ELSE @],
        out |-> first \o filling,
        erase |-> tr.state = "idle"]

\* ------------------------------------------------- DurationMetricProducer
\* The producer's mutable bucket state, as one value the methods transform.
Self == [start |-> mCurrentBucketStartTimeNs, num |-> mCurrentBucketNum,
         map |-> mCurrentSlicedDurationTrackerMap, past |-> mPastBuckets,
         hit |-> mHasHitGuardrail]

\* MetricProducer::getCurrentBucketEndTimeNs
getCurrentBucketEndTimeNs(p) == TimeBase + (p.num + 1) * BucketSize

\* flushCurrentBucketLocked, but the buckets emitted replace the older ones.
flushCurrentBucketLocked_replace(p, eventTimeNs, nextBucketStartTimeNs) ==
    LET res == [d \in DOMAIN p.map |-> flushCurrentBucket(p.map[d], eventTimeNs)]
        keep == {d \in DOMAIN p.map : ~res[d].erase}
        emitted == {d \in DOMAIN p.map : res[d].out # <<>>}
    IN [p EXCEPT !.map = [d \in keep |-> res[d].tr],
                 !.past = [d \in DOMAIN p.past \cup emitted |->
                              IF d \in emitted THEN res[d].out ELSE p.past[d]],
                 !.start = nextBucketStartTimeNs,
                 !.hit = FALSE]

\* flushCurrentBucketLocked, but no tracker is erased.
flushCurrentBucketLocked_keepAll(p, eventTimeNs, nextBucketStartTimeNs) ==
    LET res == [d \in DOMAIN p.map |-> flushCurrentBucket(p.map[d], eventTimeNs)]
        emitted == {d \in DOMAIN p.map : res[d].out # <<>>}
        old(d) == IF d \in DOMAIN p.past THEN p.past[d] ELSE <<>>
        new(d) == IF d \in emitted THEN res[d].out ELSE <<>>
    IN [p EXCEPT !.map = [d \in DOMAIN p.map |-> res[d].tr],
                 !.past = [d \in DOMAIN p.past \cup emitted |-> old(d) \o new(d)],
                 !.start = nextBucketStartTimeNs,
                 !.hit = FALSE]

\* DurationMetricProducer::flushCurrentBucketLocked
flushCurrentBucketLocked(p, eventTimeNs, nextBucketStartTimeNs) ==
    LET res == [d \in DOMAIN p.map |-> flushCurrentBucket(p.map[d], eventTimeNs)]
        keep == {d \in DOMAIN p.map : ~res[d].erase}
        emitted == {d \in DOMAIN p.map : res[d].out # <<>>}
        old(d) == IF d \in DOMAIN p.past THEN p.past[d] ELSE <<>>
        new(d) == IF d \in emitted THEN res[d].out ELSE <<>>
    IN [p EXCEPT !.map = [d \in keep |-> res[d].tr],
                 !.past = [d \in DOMAIN p.past \cup emitted |-> old(d) \o new(d)],
                 !.start = nextBucketStartTimeNs,
                 !.hit = FALSE]

\* flushIfNeededLocked, but an event at the very end of the bucket does not
\* close it.
flushIfNeededLocked_late(p, eventTimeNs) ==
    LET currentBucketEndTimeNs == getCurrentBucketEndTimeNs(p)
        numBucketsForward == 1 + (eventTimeNs - currentBucketEndTimeNs) \div BucketSize
        nextBucketNs == currentBucketEndTimeNs + (numBucketsForward - 1) * BucketSize
    IN IF currentBucketEndTimeNs >= eventTimeNs
       THEN p
       ELSE [flushCurrentBucketLocked(p, eventTimeNs, nextBucketNs)
                EXCEPT !.num = p.num + numBucketsForward]

\* DurationMetricProducer::flushIfNeededLocked
flushIfNeededLocked(p, eventTimeNs) ==
    LET currentBucketEndTimeNs == getCurrentBucketEndTimeNs(p)
        numBucketsForward == 1 + (eventTimeNs - currentBucketEndTimeNs) \div BucketSize
        nextBucketNs == currentBucketEndTimeNs + (numBucketsForward - 1) * BucketSize
    IN IF currentBucketEndTimeNs > eventTimeNs
       THEN p
       ELSE [flushCurrentBucketLocked(p, eventTimeNs, nextBucketNs)
                EXCEPT !.num = p.num + numBucketsForward]

\* MetricProducer::flushLocked
flushLocked(p, eventTimeNs) ==
    LET q == flushIfNeededLocked(p, eventTimeNs)
    IN flushCurrentBucketLocked(q, eventTimeNs, eventTimeNs)

\* hitGuardRailLocked, but only the soft limit is looked at and no key is
\* dropped.
hitGuardRailLocked_soft(p, newKey) == [drop |-> FALSE, p |-> p]

\* DurationMetricProducer::hitGuardRailLocked: whether the new key is to be
\* dropped, and the producer with mHasHitGuardrail as the call leaves it.
hitGuardRailLocked(p, newKey) ==
    LET size == Cardinality(DOMAIN p.map)
        newTupleCount == size + 1
    IN IF newKey \notin DOMAIN p.map
          /\ size >= kDimensionKeySizeSoftLimit
          /\ newTupleCount > mDimensionHardLimit
       THEN [drop |-> TRUE, p |-> [p EXCEPT !.hit = TRUE]]
       ELSE [drop |-> FALSE, p |-> p]

\* createDurationTracker, but with an oring tracker whatever the type.
createDurationTracker_oring(p) == NewTracker("oring", p.start, p.num)

\* DurationMetricProducer::createDurationTracker
createDurationTracker(p) ==
    IF mAggregationType = SUM
    THEN NewTracker("oring", p.start, p.num)
    ELSE NewTracker("max", p.start, p.num)

\* std::map::operator[] assignment
Put(map, key, value) ==
    [d \in DOMAIN map \cup {key} |-> IF d = key THEN value ELSE map[d]]

\* std::map::erase
Erase(map, key) == [d \in DOMAIN map \ {key} |-> map[d]]

\* handleStartEvent, but every start gets a new tracker.
handleStartEvent_fresh(p, whatKey, condition, eventTimeNs) ==
    LET guard == hitGuardRailLocked(p, whatKey)
        q == [guard.p EXCEPT !.map = Put(@, whatKey, createDurationTracker(p))]
    IN IF whatKey \notin DOMAIN p.map /\ guard.drop
       THEN guard.p
       ELSE [q EXCEPT !.map[whatKey] = noteStart(@, condition, eventTimeNs)]

\* DurationMetricProducer::handleStartEvent
handleStartEvent(p, whatKey, condition, eventTimeNs) ==
    LET guard == hitGuardRailLocked(p, whatKey)
        q == IF whatKey \in DOMAIN p.map
             THEN p
             ELSE [guard.p EXCEPT !.map = Put(@, whatKey, createDurationTracker(p))]
    IN IF whatKey \notin DOMAIN p.map /\ guard.drop
       THEN guard.p
       ELSE [q EXCEPT !.map[whatKey] = noteStart(@, condition, eventTimeNs)]

\* handleStopAll, but each tracker is told of one stop only and none is
\* erased.
handleStopAll_one(p, eventTimeNs) ==
    [p EXCEPT !.map = [d \in DOMAIN p.map |-> noteStop(p.map[d], eventTimeNs, FALSE)]]

\* The stop-all branch of handleMatchedLogEventValuesLocked
handleStopAll(p, eventTimeNs) ==
    LET stopped == [d \in DOMAIN p.map |-> noteStopAll(p.map[d], eventTimeNs)]
        keep == {d \in DOMAIN p.map : hasAccumulatedDuration(stopped[d])}
    IN [p EXCEPT !.map = [d \in keep |-> stopped[d]]]

\* handleStop, but the tracker is kept whatever it has accumulated.
handleStop_keep(p, dimensionInWhat, eventTimeNs) ==
    IF dimensionInWhat \in DOMAIN p.map
    THEN [p EXCEPT !.map[dimensionInWhat] = noteStop(@, eventTimeNs, FALSE)]
    ELSE p

\* The stop branch of handleMatchedLogEventValuesLocked
handleStop(p, dimensionInWhat, eventTimeNs) ==
    IF dimensionInWhat \in DOMAIN p.map
    THEN LET tr == noteStop(p.map[dimensionInWhat], eventTimeNs, FALSE)
         IN IF ~hasAccumulatedDuration(tr)
            THEN [p EXCEPT !.map = Erase(@, dimensionInWhat)]
            ELSE [p EXCEPT !.map[dimensionInWhat] = tr]
    ELSE p

\* handleMatchedLogEventValuesLocked, but without the check of the time base.
handleMatchedLogEventValuesLocked_any(p, matcherIndex, dimensionInWhat, eventTimeNs) ==
    LET q == IF mIsActive THEN flushIfNeededLocked(p, eventTimeNs) ELSE p
        condition == (mCondition = kTrue) /\ mIsActive
    IN IF matcherIndex = mStopAllIndex
       THEN handleStopAll(q, eventTimeNs)
       ELSE IF matcherIndex = mStopIndex
            THEN handleStop(q, dimensionInWhat, eventTimeNs)
            ELSE handleStartEvent(q, dimensionInWhat, condition, eventTimeNs)

\* handleMatchedLogEventValuesLocked, but an unknown condition counts as true.
handleMatchedLogEventValuesLocked_unknown(p, matcherIndex, dimensionInWhat, eventTimeNs) ==
    IF eventTimeNs < TimeBase
    THEN p
    ELSE LET q == IF mIsActive THEN flushIfNeededLocked(p, eventTimeNs) ELSE p
             condition == (mCondition # kFalse) /\ mIsActive
         IN IF matcherIndex = mStopAllIndex
            THEN handleStopAll(q, eventTimeNs)
            ELSE IF matcherIndex = mStopIndex
                 THEN handleStop(q, dimensionInWhat, eventTimeNs)
                 ELSE handleStartEvent(q, dimensionInWhat, condition, eventTimeNs)

\* DurationMetricProducer::handleMatchedLogEventValuesLocked
handleMatchedLogEventValuesLocked(p, matcherIndex, dimensionInWhat, eventTimeNs) ==
    IF eventTimeNs < TimeBase
    THEN p
    ELSE LET q == IF mIsActive THEN flushIfNeededLocked(p, eventTimeNs) ELSE p
             condition == (mCondition = kTrue) /\ mIsActive
         IN IF matcherIndex = mStopAllIndex
            THEN handleStopAll(q, eventTimeNs)
            ELSE IF matcherIndex = mStopIndex
                 THEN handleStop(q, dimensionInWhat, eventTimeNs)
                 ELSE handleStartEvent(q, dimensionInWhat, condition, eventTimeNs)

\* DurationMetricProducer::onConditionChangedLocked, the producer's buckets
onConditionChangedLocked(p, conditionMet, eventTime) ==
    IF ~mIsActive
    THEN p
    ELSE LET q == flushIfNeededLocked(p, eventTime)
         IN [q EXCEPT !.map = [d \in DOMAIN q.map |->
                                  onConditionChanged(q.map[d], conditionMet, eventTime)]]

\* DurationMetricProducer::dropDataLocked
dropDataLocked(p, dropTimeNs) ==
    [flushIfNeededLocked(p, dropTimeNs) EXCEPT !.past = <<>>]

\* onDumpReportLocked, but the partial bucket is closed without a new bucket
\* being started at the dump.
onDumpReportLocked_stay(p, dumpTimeNs, include_current_partial_bucket, erase_data) ==
    LET r == flushIfNeededLocked(p, dumpTimeNs)
        q == IF include_current_partial_bucket
             THEN flushCurrentBucketLocked(r, dumpTimeNs, r.start)
             ELSE r
    IN IF erase_data THEN [q EXCEPT !.past = <<>>] ELSE q

\* DurationMetricProducer::onDumpReportLocked, the producer's buckets
onDumpReportLocked(p, dumpTimeNs, include_current_partial_bucket, erase_data) ==
    LET q == IF include_current_partial_bucket
             THEN flushLocked(p, dumpTimeNs)
             ELSE flushIfNeededLocked(p, dumpTimeNs)
    IN IF erase_data THEN [q EXCEPT !.past = <<>>] ELSE q

\* StatsdStats::hasHitDimensionGuardrail
hasHitDimensionGuardrail(reached) == reached

\* What onDumpReportLocked writes for the producer p it has flushed: nothing
\* but the id and the activity of a metric without past buckets, and the
\* guardrail flag and the buckets of any other.
WrittenReport(p, reached, afterDrop) ==
    [dumped |-> TRUE,
     data |-> p.past # <<>>,
     guardrailHit |-> p.past # <<>> /\ hasHitDimensionGuardrail(reached),
     afterDrop |-> afterDrop]

\* No report: the latest operation was no dump.
NoReport == [dumped |-> FALSE, data |-> FALSE, guardrailHit |-> FALSE, afterDrop |-> FALSE]

\* ---------------------------------------------------------- AnomalyTracker
\* The tracker is a record of its members: mAlert, mNumOfPastBuckets,
\* mPastBuckets (the ring, indexed from 0; an empty map stands for a bucket
\* without data), mSumOverPastBuckets, mMostRecentBucketNum,
\* mRefractoryPeriodEndsSec and the number of mSubscriptions.  Timestamps
\* are whole seconds.

\* The value of key in a DimToValMap, 0 when it has none.
ValueIn(bucket, key) == IF key \in DOMAIN bucket THEN bucket[key] ELSE 0

\* AnomalyTracker::AnomalyTracker
NewAnomalyTracker(alert) ==
    [mAlert |-> alert,
     mNumOfPastBuckets |-> alert.num_buckets - 1,
     mPastBuckets |-> [i \in 0..(alert.num_buckets - 2) |-> <<>>],
     mSumOverPastBuckets |-> <<>>,
     mMostRecentBucketNum |-> -1,
     mRefractoryPeriodEndsSec |-> <<>>,
     mSubscriptions |-> 0]

\* AnomalyTracker::index
index(tr, bucketNum) == bucketNum % tr.mNumOfPastBuckets

\* AnomalyTracker::getAnomalyThreshold
getAnomalyThreshold(tr) == tr.mAlert.trigger_if_sum_gt

\* AnomalyTracker::getSumOverPastBuckets
getSumOverPastBuckets(tr, key) == ValueIn(tr.mSumOverPastBuckets, key)

\* AnomalyTracker::getPastBucketValue
getPastBucketValue(tr, key, bucketNum) ==
    IF \/ bucketNum < 0
       \/ tr.mMostRecentBucketNum < 0
       \/ bucketNum <= tr.mMostRecentBucketNum - tr.mNumOfPastBuckets
       \/ bucketNum > tr.mMostRecentBucketNum
    THEN 0
    ELSE ValueIn(tr.mPastBuckets[index(tr, bucketNum)], key)

\* AnomalyTracker::getRefractoryPeriodEndsSec
getRefractoryPeriodEndsSec(tr, key) == ValueIn(tr.mRefractoryPeriodEndsSec, key)

\* AnomalyTracker::isInRefractoryPeriod
isInRefractoryPeriod(tr, timestamp, key) ==
    /\ key \in DOMAIN tr.mRefractoryPeriodEndsSec
    /\ timestamp < tr.mRefractoryPeriodEndsSec[key]

\* AnomalyTracker::addBucketToSum
addBucketToSum(sum, bucket) ==
    [k \in DOMAIN sum \cup DOMAIN bucket |-> ValueIn(sum, k) + ValueIn(bucket, k)]

\* AnomalyTracker::subtractBucketFromSum
subtractBucketFromSum(sum, bucket) ==
    LET left(k) == sum[k] - ValueIn(bucket, k)
    IN [k \in {x \in DOMAIN sum : left(x) # 0} |-> left(k)]

\* A subtraction that leaves the sum as it was.
subtractValueFromSum_keep(sum, key, bucketValue) == sum

\* AnomalyTracker::subtractValueFromSum
subtractValueFromSum(sum, key, bucketValue) ==
    IF key \in DOMAIN sum
    THEN [k \in {x \in DOMAIN sum : x # key \/ sum[key] # bucketValue} |->
             IF k = key THEN sum[k] - bucketValue ELSE sum[k]]
    ELSE sum

\* A reset that also forgets the most recent bucket number.
resetStorage_all(tr) ==
    [tr EXCEPT !.mPastBuckets = [i \in DOMAIN tr.mPastBuckets |-> <<>>],
               !.mSumOverPastBuckets = <<>>,
               !.mMostRecentBucketNum = -1]

\* AnomalyTracker::resetStorage
resetStorage(tr) ==
    [tr EXCEPT !.mPastBuckets = [i \in DOMAIN tr.mPastBuckets |-> <<>>],
               !.mSumOverPastBuckets = <<>>]

\* The sum without the buckets of the ring slots in idxs.
RECURSIVE SubtractSlots(_, _, _)
SubtractSlots(sum, ring, idxs) ==
    IF idxs = {} THEN sum
    ELSE LET i == CHOOSE x \in idxs : TRUE
         IN SubtractSlots(subtractBucketFromSum(sum, ring[i]), ring, idxs \ {i})

\* An advance that leaves the slots of the buckets it passes as they were.
advanceMostRecentBucketTo_stale(tr, bucketNum) ==
    IF bucketNum <= tr.mMostRecentBucketNum
    THEN tr
    ELSE IF bucketNum >= tr.mMostRecentBucketNum + tr.mNumOfPastBuckets
         THEN [resetStorage(tr) EXCEPT !.mMostRecentBucketNum = bucketNum]
         ELSE [tr EXCEPT !.mMostRecentBucketNum = bucketNum]

\* AnomalyTracker::advanceMostRecentBucketTo
advanceMostRecentBucketTo(tr, bucketNum) ==
    IF bucketNum <= tr.mMostRecentBucketNum
    THEN tr
    ELSE IF bucketNum >= tr.mMostRecentBucketNum + tr.mNumOfPastBuckets
         THEN [resetStorage(tr) EXCEPT !.mMostRecentBucketNum = bucketNum]
         ELSE LET old == {index(tr, i) : i \in (tr.mMostRecentBucketNum + 1)..bucketNum}
              IN [tr EXCEPT !.mSumOverPastBuckets =
                                SubtractSlots(@, tr.mPastBuckets, old),
                            !.mPastBuckets =
                                [i \in DOMAIN @ |-> IF i \in old THEN <<>> ELSE @[i]],
                            !.mMostRecentBucketNum = bucketNum]

\* Whether addPastBucket ignores the bucket number.
TooOld(tr, bucketNum) ==
    \/ tr.mNumOfPastBuckets = 0
    \/ bucketNum < 0
    \/ bucketNum <= tr.mMostRecentBucketNum - tr.mNumOfPastBuckets

\* AnomalyTracker::addPastBucket(bucket, bucketNum)
addPastBucket(tr, bucket, bucketNum) ==
    IF TooOld(tr, bucketNum) THEN tr
    ELSE LET made == IF bucketNum <= tr.mMostRecentBucketNum
                     THEN [tr EXCEPT !.mSumOverPastBuckets =
                              subtractBucketFromSum(@, tr.mPastBuckets[index(tr, bucketNum)])]
                     ELSE advanceMostRecentBucketTo(tr, bucketNum)
         IN [made EXCEPT !.mPastBuckets[index(tr, bucketNum)] = bucket,
                         !.mSumOverPastBuckets = addBucketToSum(@, bucket)]

\* AnomalyTracker::addPastBucket(key, bucketValue, bucketNum)
addPastBucketValue(tr, key, bucketValue, bucketNum) ==
    IF TooOld(tr, bucketNum) THEN tr
    ELSE LET i == index(tr, bucketNum)
             bucket == tr.mPastBuckets[i]
         IN IF bucketNum <= tr.mMostRecentBucketNum /\ bucket # <<>>
            THEN [tr EXCEPT
                    !.mPastBuckets[i] =
                        [k \in DOMAIN bucket \cup {key} |->
                            IF k = key THEN bucketValue ELSE bucket[k]],
                    !.mSumOverPastBuckets =
                        LET less == IF key \in DOMAIN bucket
                                    THEN subtractValueFromSum(@, key, bucket[key])
                                    ELSE @
                        IN [k \in DOMAIN less \cup {key} |->
                               ValueIn(less, k) + (IF k = key THEN bucketValue ELSE 0)]]
            ELSE addPastBucket(tr, [k \in {key} |-> bucketValue], bucketNum)

\* A detection that takes reaching the threshold for breaching it.
detectAnomaly_reach(tr, currBucketNum, key, currentBucketValue) ==
    LET adv == IF currBucketNum > tr.mMostRecentBucketNum + 1
               THEN advanceMostRecentBucketTo(tr, currBucketNum - 1)
               ELSE tr
    IN [tr |-> adv,
        anomaly |-> getSumOverPastBuckets(adv, key) + currentBucketValue
                        >= getAnomalyThreshold(adv)]

\* AnomalyTracker::detectAnomaly: the tracker advanced to currBucketNum - 1,
\* and whether the past buckets with the current value breach the threshold.
detectAnomaly(tr, currBucketNum, key, currentBucketValue) ==
    LET adv == IF currBucketNum > tr.mMostRecentBucketNum + 1
               THEN advanceMostRecentBucketTo(tr, currBucketNum - 1)
               ELSE tr
    IN [tr |-> adv,
        anomaly |-> getSumOverPastBuckets(adv, key) + currentBucketValue
                        > getAnomalyThreshold(adv)]

\* A declaration whose refractory period ends at once.
declareAnomaly_noPeriod(tr, timestamp, key) ==
    IF isInRefractoryPeriod(tr, timestamp, key)
    THEN [tr |-> tr, declared |-> FALSE, informed |-> 0]
    ELSE [tr |-> [tr EXCEPT !.mRefractoryPeriodEndsSec =
                     [k \in DOMAIN @ \cup {key} |-> IF k = key THEN timestamp ELSE @[k]]],
          declared |-> TRUE,
          informed |-> tr.mSubscriptions]

\* AnomalyTracker::declareAnomaly: the tracker afterwards, whether an anomaly
\* was declared, and how many subscriptions were informed.
declareAnomaly(tr, timestamp, key) ==
    IF isInRefractoryPeriod(tr, timestamp, key)
    THEN [tr |-> tr, declared |-> FALSE, informed |-> 0]
    ELSE [tr |-> [tr EXCEPT !.mRefractoryPeriodEndsSec =
                     [k \in DOMAIN @ \cup {key} |->
                         IF k = key THEN timestamp + tr.mAlert.refractory_period_secs
                         ELSE @[k]]],
          declared |-> TRUE,
          informed |-> tr.mSubscriptions]

\* AnomalyTracker::detectAndDeclareAnomaly
detectAndDeclareAnomaly(tr, timestamp, currBucketNum, key, currentBucketValue) ==
    LET found == detectAnomaly(tr, currBucketNum, key, currentBucketValue)
    IN IF found.anomaly
       THEN declareAnomaly(found.tr, timestamp, key)
       ELSE [tr |-> found.tr, declared |-> FALSE, informed |-> 0]

\* AnomalyTracker::addSubscription
addSubscription(tr) == [tr EXCEPT !.mSubscriptions = @ + 1]

\* AnomalyTracker::onConfigUpdated
onConfigUpdated(tr) == [tr EXCEPT !.mSubscriptions = 0]

\* ---------------------------------------------------------- MetricsManager
\* One configuration: three atom matchers, two conditions, three metric
\* producers.  Matchers 1 and 2 are simple (tags 1 and 2, matching when the
\* atom's field is set), matcher 3 matches when either of them does.
\* Condition 1 starts on matcher 1 and stops on matcher 2; condition 2
\* starts on matcher 2 and links to no metric.  Metric 1 reads condition 1
\* unsliced, metric 2 reads it sliced, metric 3 has no condition and is
\* activated by matcher 1 and deactivated by matcher 2.  No matcher is
\* interested in tag 3.
AID_ROOT == 0
AID_SYSTEM == 1000
AID_SHELL == 2000

kNotComputed == "kNotComputed"
kMatched == "kMatched"
kNotMatched == "kNotMatched"
kNotEvaluated == "kNotEvaluated"

Tags == 1..3
Matchers == 1..3
Conditions == 1..2
Metrics == 1..3

mWhitelistedAtomIds == {2}
mAllowedLogSources == {AID_SHELL + 1}
Uids == {AID_ROOT, AID_SYSTEM - 1, AID_SYSTEM, AID_SHELL - 1, AID_SHELL,
         AID_SHELL + 1, AID_SHELL + 2}

mTagIdsToMatchersMap == (1 :> <<1, 3>>) @@ (2 :> <<2, 3>>)
mTrackerToConditionMap == (1 :> <<1>>) @@ (2 :> <<1, 2>>)
mConditionToMetricMap == (1 :> <<1, 2>>)
mTrackerToMetricMap == (1 :> <<2>>) @@ (3 :> <<1, 3>>)
mActivationAtomTrackerToMetricMap == (1 :> <<3>>)
mDeactivationAtomTrackerToMetricMap == (2 :> <<3>>)
mMetricIndexesWithActivation == <<3>>
mIsAlwaysActive == Len(mMetricIndexesWithActivation) # Cardinality(Metrics)

\* The activation of metric 3 lasts this long.
ActivationTtl == 1

\* The elements of a sequence.
Range(q) == {q[i] : i \in DOMAIN q}

\* A call made while an atom is processed: the operation, the index of the
\* matcher, condition or metric called, the matcher a metric is called for
\* (0 if none), and the condition value handed to a metric or the changed
\* bit an evaluation left ("none" for the other calls).
Call(op, who, matcher, value) ==
    [op |-> op, who |-> who, matcher |-> matcher, value |-> value]

\* The elements of a set of numbers in ascending order.
RECURSIVE Ascending(_)
Ascending(S) ==
    IF S = {} THEN <<>>
    ELSE LET x == CHOOSE y \in S : \A z \in S : y <= z
         IN <<x>> \o Ascending(S \ {x})

\* The pairs <<key, member>> of a map from indices to lists of indices, in
\* the order of the keys given.
RECURSIVE PairsOf(_, _)
PairsOf(map, keys) ==
    IF keys = <<>> THEN <<>>
    ELSE [i \in 1..Len(map[Head(keys)]) |-> <<Head(keys), map[Head(keys)][i]>>]
             \o PairsOf(map, Tail(keys))

\* The pairs of a map whose key is a matcher that matched.
MatchedPairs(map, matcherCache) ==
    SelectSeq(PairsOf(map, Ascending(DOMAIN map)),
              LAMBDA pair : matcherCache[pair[1]] = kMatched)

\* MetricsManager::isConfigValid
isConfigValid(mgr) == mgr.mConfigValid

\* A check of credentials that takes the shell for a system service.
checkLogCredentials_shell(event) ==
    \/ event.tag \in mWhitelistedAtomIds
    \/ event.uid = AID_ROOT
    \/ (event.uid >= AID_SYSTEM /\ event.uid <= AID_SHELL)
    \/ event.uid \in mAllowedLogSources

\* MetricsManager::checkLogCredentials
checkLogCredentials(event) ==
    IF event.tag \in mWhitelistedAtomIds THEN TRUE
    ELSE IF event.uid = AID_ROOT \/ (event.uid >= AID_SYSTEM /\ event.uid < AID_SHELL)
    THEN TRUE
    ELSE IF event.uid \notin mAllowedLogSources THEN FALSE
    ELSE TRUE

\* A lookup that finds every matcher interested in every tag.
FindMatchers_any(tagId) == [found |-> TRUE, second |-> <<1, 2, 3>>]

\* mTagIdsToMatchersMap.find(tagId)
FindMatchers(tagId) ==
    IF tagId \in DOMAIN mTagIdsToMatchersMap
    THEN [found |-> TRUE, second |-> mTagIdsToMatchersMap[tagId]]
    ELSE [found |-> FALSE, second |-> <<>>]

\* SimpleAtomMatchingTracker::onLogEvent, for matchers 1 and 2.
SimpleMatches(matcherIndex, event) ==
    IF event.tag = matcherIndex /\ event.field = 1 THEN kMatched ELSE kNotMatched

\* AtomMatchingTracker::onLogEvent: the matcher cache afterwards.  The
\* combination evaluates the children not yet computed, then itself.
MatcherOnLogEvent(event, matcherIndex, matcherCache) ==
    IF matcherCache[matcherIndex] # kNotComputed THEN matcherCache
    ELSE IF matcherIndex \in {1, 2}
    THEN [matcherCache EXCEPT ![matcherIndex] = SimpleMatches(matcherIndex, event)]
    ELSE LET children == [m \in Matchers |->
                 IF m \in {1, 2} /\ matcherCache[m] = kNotComputed
                 THEN SimpleMatches(m, event) ELSE matcherCache[m]]
         IN [children EXCEPT ![matcherIndex] =
                IF children[1] = kMatched \/ children[2] = kMatched
                THEN kMatched ELSE kNotMatched]

\* MetricProducer::flushIfExpire
flushIfExpire(producer, eventTimeNs) ==
    IF producer.mIsActive /\ producer.hasActivation /\ eventTimeNs >= producer.expire
    THEN [producer EXCEPT !.mIsActive = FALSE]
    ELSE producer

\* MetricProducer::cancelEventActivation
cancelEventActivation(producer) ==
    [producer EXCEPT !.mIsActive = FALSE, !.expire = 0]

\* MetricProducer::activate
activate(producer, eventTimeNs) ==
    [producer EXCEPT !.mIsActive = TRUE, !.expire = eventTimeNs + ActivationTtl]

\* MetricProducer::isConditionSliced
isConditionSliced(metricIndex) == metricIndex = 2

\* MetricProducer::onConditionChanged
producerOnConditionChanged(producer, conditionMet) ==
    [producer EXCEPT !.mCondition = conditionMet]

\* MetricProducer::onSlicedConditionMayChange
onSlicedConditionMayChange(producer, overallCondition) ==
    [producer EXCEPT !.mCondition = overallCondition]

\* MetricProducer::onMatchedLogEvent: the producer handles the atom against
\* the condition it holds.
onMatchedLogEvent(producer) == [producer EXCEPT !.handledUnder = producer.mCondition]

\* SimpleConditionTracker::evaluateCondition: the new state of condition i
\* and whether it changed.
evaluateCondition(i, state, matcherCache) ==
    LET started == matcherCache[IF i = 1 THEN 1 ELSE 2] = kMatched
        stopped == i = 1 /\ matcherCache[2] = kMatched
        new == IF started THEN kTrue ELSE IF stopped THEN kFalse ELSE state
    IN [state |-> new, changed |-> new # state]

\* MetricsManager::onLogEvent, lines 548-556: the metrics with activation are
\* flushed if expired, and those still active are remembered.
RECURSIVE FlushExpired(_, _, _)
FlushExpired(r, list, eventTimeNs) ==
    IF list = <<>> THEN r
    ELSE LET metricIndex == Head(list)
             metric == flushIfExpire(r.producers[metricIndex], eventTimeNs)
         IN FlushExpired(
                [r EXCEPT !.producers[metricIndex] = metric,
                          !.trace = Append(@, Call("flushIfExpire", metricIndex, 0, "none")),
                          !.activeMetricsIndices =
                              IF metric.mIsActive THEN @ \cup {metricIndex} ELSE @],
                Tail(list), eventTimeNs)

\* Lines 579-583: the matchers interested in the tag look at the atom.
RECURSIVE RunMatchers(_, _, _)
RunMatchers(r, list, event) ==
    IF list = <<>> THEN r
    ELSE RunMatchers(
             [r EXCEPT !.matcherCache = MatcherOnLogEvent(event, Head(list), @),
                       !.trace = Append(@, Call("matcherOnLogEvent", Head(list), 0, "none"))],
             Tail(list), event)

\* Lines 589-596: the activations whose deactivation matcher matched are
\* cancelled.
RECURSIVE CancelActivations(_, _)
CancelActivations(r, pairs) ==
    IF pairs = <<>> THEN r
    ELSE LET metricIndex == Head(pairs)[2]
         IN CancelActivations(
                [r EXCEPT !.producers[metricIndex] = cancelEventActivation(@),
                          !.trace = Append(@, Call("cancelEventActivation", metricIndex,
                                                   Head(pairs)[1], "none")),
                          !.canceled = @ \cup {metricIndex}],
                Tail(pairs))

\* Lines 599-605: the metrics with a cancelled activation are flushed if
\* expired and forgotten if no longer active.
RECURSIVE FlushCanceled(_, _, _)
FlushCanceled(r, list, eventTimeNs) ==
    IF list = <<>> THEN r
    ELSE LET metricIndex == Head(list)
             metric == flushIfExpire(r.producers[metricIndex], eventTimeNs)
         IN FlushCanceled(
                [r EXCEPT !.producers[metricIndex] = metric,
                          !.trace = Append(@, Call("flushIfExpire", metricIndex, 0, "none")),
                          !.activeMetricsIndices =
                              IF metric.mIsActive THEN @ ELSE @ \ {metricIndex}],
                Tail(list), eventTimeNs)

\* Lines 611-618: the activations whose matcher matched are turned on.
RECURSIVE Activate(_, _, _)
Activate(r, pairs, eventTimeNs) ==
    IF pairs = <<>> THEN r
    ELSE LET metricIndex == Head(pairs)[2]
             metric == activate(r.producers[metricIndex], eventTimeNs)
         IN Activate(
                [r EXCEPT !.producers[metricIndex] = metric,
                          !.trace = Append(@, Call("activate", metricIndex,
                                                   Head(pairs)[1], "none")),
                          !.isActive = @ \/ metric.mIsActive],
                Tail(pairs), eventTimeNs)

\* A bitmap that has every condition re-evaluated.
conditionToBeEvaluated_all(matcherCache) == [i \in Conditions |-> TRUE]

\* Lines 623-635: the conditions fed by a matcher that matched.
conditionToBeEvaluated(matcherCache) ==
    [i \in Conditions |->
        \E pair \in Range(MatchedPairs(mTrackerToConditionMap, matcherCache)) :
            pair[2] = i]

\* Lines 637-651: the conditions to be evaluated are evaluated in the order
\* of their indices.
RECURSIVE EvaluateConditions(_, _, _)
EvaluateConditions(r, list, toBeEvaluated) ==
    IF list = <<>> THEN r
    ELSE LET i == Head(list)
             done == evaluateCondition(i, r.conditions[i], r.matcherCache)
         IN EvaluateConditions(
                IF ~toBeEvaluated[i] THEN r
                ELSE [r EXCEPT !.conditions[i] = done.state,
                               !.conditionCache[i] = done.state,
                               !.changedCache[i] = done.changed,
                               !.trace = Append(@, Call("evaluateCondition", i, 0,
                                   IF done.changed THEN "changed" ELSE "unchanged"))],
                Tail(list), toBeEvaluated)

\* Lines 653-677: the metrics linked to a condition that changed are told.
RECURSIVE NotifyConditionChanged(_, _)
NotifyConditionChanged(r, pairs) ==
    IF pairs = <<>> THEN r
    ELSE LET i == Head(pairs)[1]
             metricIndex == Head(pairs)[2]
         IN NotifyConditionChanged(
                IF ~r.changedCache[i] THEN r
                ELSE IF ~isConditionSliced(metricIndex)
                THEN [r EXCEPT !.producers[metricIndex] =
                                   producerOnConditionChanged(@, r.conditionCache[i]),
                               !.trace = Append(@, Call("onConditionChanged", metricIndex,
                                                        0, r.conditionCache[i]))]
                ELSE [r EXCEPT !.producers[metricIndex] =
                                   onSlicedConditionMayChange(@, r.conditionCache[i]),
                               !.trace = Append(@, Call("onSlicedConditionMayChange",
                                                        metricIndex, 0, r.conditionCache[i]))],
                Tail(pairs))

\* Lines 678-695: the metrics fed by a matcher that matched are told of the
\* matched atom.
RECURSIVE NotifyMatched(_, _)
NotifyMatched(r, pairs) ==
    IF pairs = <<>> THEN r
    ELSE LET metricIndex == Head(pairs)[2]
         IN NotifyMatched(
                [r EXCEPT !.producers[metricIndex] = onMatchedLogEvent(@),
                          !.trace = Append(@, Call("onMatchedLogEvent", metricIndex,
                                                   Head(pairs)[1], "none"))],
                Tail(pairs))

\* What onLogEvent works on: the conditions and producers of the manager
\* and the locals of the function.
Locals(mgr) ==
    [conditions |-> mgr.conditions, producers |-> mgr.producers,
     isActive |-> mIsAlwaysActive, activeMetricsIndices |-> {}, canceled |-> {},
     matcherCache |-> [m \in Matchers |-> kNotComputed],
     conditionCache |-> [i \in Conditions |-> kNotEvaluated],
     changedCache |-> [i \in Conditions |-> FALSE],
     trace |-> <<>>]

\* The manager and the calls made when onLogEvent returns with r.
Returned(mgr, r, isActive) ==
    [mgr |-> [mgr EXCEPT !.conditions = r.conditions, !.producers = r.producers,
                         !.mIsActive = isActive],
     trace |-> r.trace]

\* Lines 579-618: matchers, cancelled activations, activations.
MatchersDone(mgr, event, matchersIt) ==
    LET eventTimeNs == event.t
        r0 == FlushExpired(Locals(mgr), mMetricIndexesWithActivation, eventTimeNs)
        r1 == RunMatchers(r0, matchersIt.second, event)
        r2 == CancelActivations(
                  r1, MatchedPairs(mDeactivationAtomTrackerToMetricMap, r1.matcherCache))
        r3 == FlushCanceled(r2, Ascending(r2.canceled), eventTimeNs)
        r4 == [r3 EXCEPT !.isActive = @ \/ r3.activeMetricsIndices # {}]
    IN Activate(r4, MatchedPairs(mActivationAtomTrackerToMetricMap, r4.matcherCache),
                eventTimeNs)

\* Lines 620-677: conditions evaluated, then their changes told.
ConditionsDone(r) ==
    LET evaluated == EvaluateConditions(r, Ascending(Conditions),
                                        conditionToBeEvaluated(r.matcherCache))
    IN NotifyConditionChanged(
           evaluated, PairsOf(mConditionToMetricMap,
                              Ascending(DOMAIN mConditionToMetricMap)))

\* Lines 678-695.
MatchedDone(r) ==
    NotifyMatched(r, MatchedPairs(mTrackerToMetricMap, r.matcherCache))

\* An onLogEvent that tells the metrics of the matched atom before it
\* evaluates the conditions.
onLogEvent_matchedFirst(mgr, event) ==
    LET matchersIt == FindMatchers(event.tag)
        r0 == FlushExpired(Locals(mgr), mMetricIndexesWithActivation, event.t)
    IN IF ~isConfigValid(mgr) \/ ~checkLogCredentials(event)
       THEN [mgr |-> mgr, trace |-> <<>>]
       ELSE IF ~matchersIt.found \/ event.headerOnly
       THEN Returned(mgr, r0, mIsAlwaysActive \/ r0.activeMetricsIndices # {})
       ELSE LET r == MatchersDone(mgr, event, matchersIt)
            IN Returned(mgr, ConditionsDone(MatchedDone(r)), r.isActive)

\* MetricsManager::onLogEvent: the manager afterwards and the calls made, in
\* their order.
onLogEvent(mgr, event) ==
    LET matchersIt == FindMatchers(event.tag)
        r0 == FlushExpired(Locals(mgr), mMetricIndexesWithActivation, event.t)
    IN IF ~isConfigValid(mgr) THEN [mgr |-> mgr, trace |-> <<>>]
       ELSE IF ~checkLogCredentials(event) THEN [mgr |-> mgr, trace |-> <<>>]
       ELSE IF ~matchersIt.found
       THEN Returned(mgr, r0, mIsAlwaysActive \/ r0.activeMetricsIndices # {})
       ELSE IF event.headerOnly
       THEN Returned(mgr, r0, mIsAlwaysActive \/ r0.activeMetricsIndices # {})
       ELSE LET r == MatchersDone(mgr, event, matchersIt)
            IN Returned(mgr, MatchedDone(ConditionsDone(r)), r.isActive)

\* ------------------------------------- MetricsManager, owner of producers
\* A manager of two duration metrics, identified by their metric ids, as a
\* record of the members a report dump reads and writes.  Each producer is
\* the bucket state the methods of DurationMetricProducer transform.
OwnedMetricIds == 1..2

\* The wall clock runs WallClockAhead ahead of the elapsed time.
WallClockAhead == 10

getWallClockNs(elapsedNs) == elapsedNs + WallClockAhead

\* DurationMetricProducer::clearPastBucketsLocked
clearPastBucketsLocked(p, dumpTimeNs) ==
    [flushIfNeededLocked(p, dumpTimeNs) EXCEPT !.past = <<>>]

\* MetricsManager::hasRestrictedMetricsDelegate
hasRestrictedMetricsDelegate(mgr) == mgr.mRestrictedMetricsDelegatePackageName # "nullopt"

\* onDumpReport, but the last-report timestamps follow every dump.
onDumpReport_always(mgr, dumpTimeStampNs, wallClockNs, include_current_partial_bucket, erase_data) ==
    IF hasRestrictedMetricsDelegate(mgr)
    THEN mgr
    ELSE [mgr EXCEPT
             !.mAllMetricProducers =
                 [i \in DOMAIN @ |->
                     IF i \notin mgr.mNoReportMetricIds
                     THEN onDumpReportLocked(@[i], dumpTimeStampNs,
                                             include_current_partial_bucket, erase_data)
                     ELSE clearPastBucketsLocked(@[i], dumpTimeStampNs)],
             !.mLastReportTimeNs = dumpTimeStampNs,
             !.mLastReportWallClockNs = wallClockNs]

\* MetricsManager::onDumpReport
onDumpReport(mgr, dumpTimeStampNs, wallClockNs, include_current_partial_bucket, erase_data) ==
    IF hasRestrictedMetricsDelegate(mgr)
    THEN mgr
    ELSE [mgr EXCEPT
             !.mAllMetricProducers =
                 [i \in DOMAIN @ |->
                     IF i \notin mgr.mNoReportMetricIds
                     THEN onDumpReportLocked(@[i], dumpTimeStampNs,
                                             include_current_partial_bucket, erase_data)
                     ELSE clearPastBucketsLocked(@[i], dumpTimeStampNs)],
             !.mLastReportTimeNs = IF erase_data THEN dumpTimeStampNs ELSE @,
             !.mLastReportWallClockNs = IF erase_data THEN wallClockNs ELSE @]

\* MetricsManager::MetricsManager, for a configuration that lists noReport
\* as no_report_metric and has a restricted-metrics delegate or not.
OwnerConstructed(noReport, restricted, currentTimeNs) ==
    /\ owner =
           [mAllMetricProducers |->
                [i \in OwnedMetricIds |->
                    [start |-> TimeBase, num |-> 0, map |-> <<>>, past |-> <<>>,
                     hit |-> FALSE]],
            mNoReportMetricIds |-> noReport,
            mRestrictedMetricsDelegatePackageName |->
                IF restricted THEN "delegate" ELSE "nullopt",
            mLastReportTimeNs |-> currentTimeNs,
            mLastReportWallClockNs |-> getWallClockNs(currentTimeNs)]
    /\ oev = [kind |-> "init", t |-> currentTimeNs, erase_data |-> FALSE]

\* ------------------------------------------- MetricsManager::updateConfig
\* A StatsdConfig of size n lists n atom matchers, n predicates, n metrics
\* and n alerts: matcher i matches tag i and feeds predicate i, and metric i
\* counts matcher i under predicate i.  A malformed config has its first bad
\* entry at index badIndex of the list of stage bad (0: none is bad).
MaxConfigSize == 2

Stages == <<"matchers", "conditions", "metrics", "alerts">>

StatsdConfigs ==
    {c \in [size : 1..MaxConfigSize, bad : 0..Len(Stages), badIndex : 1..MaxConfigSize,
            has_restricted_metrics_delegate_package_name : BOOLEAN] :
        /\ c.badIndex <= c.size
        /\ c.bad = 0 => c.badIndex = 1}

ValidConfig(n) ==
    [size |-> n, bad |-> 0, badIndex |-> 1,
     has_restricted_metrics_delegate_package_name |-> FALSE]

\* The entries of a stage that updateStatsdConfig has built when it returns:
\* all of an earlier stage, those before the bad entry of the bad stage,
\* none of a later stage.
Built(config, stage) ==
    IF config.bad = 0 \/ stage < config.bad THEN 1..config.size
    ELSE IF stage = config.bad THEN 1..(config.badIndex - 1)
    ELSE {}

\* A vector of the trackers or producers built, each named by its id.
VectorOf(S) == [i \in S |-> i]

\* A dispatch map from each index built to the indices it feeds.
MapOf(S, T) == [i \in S \cap T |-> <<i>>]

\* updateStatsdConfig (and initStatsdConfig): the reason it returns and what
\* it leaves in its output parameters.
updateStatsdConfig(config) ==
    [reason |-> IF config.bad = 0 THEN "nullopt" ELSE Stages[config.bad],
     allTagIdsToMatchersMap |-> MapOf(Built(config, 1), Built(config, 1)),
     newAtomMatchingTrackers |-> VectorOf(Built(config, 1)),
     newConditionTrackers |-> VectorOf(Built(config, 2)),
     trackerToConditionMap |-> MapOf(Built(config, 1), Built(config, 2)),
     newMetricProducers |-> VectorOf(Built(config, 3)),
     conditionToMetricMap |-> MapOf(Built(config, 2), Built(config, 3)),
     trackerToMetricMap |-> MapOf(Built(config, 1), Built(config, 3)),
     newAnomalyTrackers |-> VectorOf(Built(config, 4))]

\* The members updateConfig assigns from the outputs of updateStatsdConfig
\* and from the settings of the config.
Assigned(mgr, config, out) ==
    [mgr EXCEPT
        !.mRestrictedMetricsDelegatePackageName =
            IF config.has_restricted_metrics_delegate_package_name
            THEN "delegate" ELSE "nullopt",
        !.mTagIdsToMatchersMap = out.allTagIdsToMatchersMap,
        !.mConditionToMetricMap = out.conditionToMetricMap,
        !.mTrackerToMetricMap = out.trackerToMetricMap,
        !.mTrackerToConditionMap = out.trackerToConditionMap,
        !.mInvalidConfigReason = out.reason,
        !.mAllAtomMatchingTrackers = out.newAtomMatchingTrackers,
        !.mAllConditionTrackers = out.newConditionTrackers,
        !.mAllMetricProducers = out.newMetricProducers,
        !.mAllAnomalyTrackers = out.newAnomalyTrackers,
        !.settings = config.size]

\* MetricsManager::updateConfig: the manager it leaves; it returns whether
\* mInvalidConfigReason is empty.
updateConfig(mgr, config) ==
    IF ~mgr.isAtLeastU /\ config.has_restricted_metrics_delegate_package_name
    THEN [mgr EXCEPT !.mInvalidConfigReason = "RESTRICTED_METRIC_NOT_ENABLED"]
    ELSE Assigned(mgr, config, updateStatsdConfig(config))

\* What a configuration consists of in the manager: its matchers,
\* conditions, metric producers, anomaly trackers and dispatch maps.
Installed(mgr) ==
    [mAllAtomMatchingTrackers |-> mgr.mAllAtomMatchingTrackers,
     mAllConditionTrackers |-> mgr.mAllConditionTrackers,
     mAllMetricProducers |-> mgr.mAllMetricProducers,
     mAllAnomalyTrackers |-> mgr.mAllAnomalyTrackers,
     mTagIdsToMatchersMap |-> mgr.mTagIdsToMatchersMap,
     mConditionToMetricMap |-> mgr.mConditionToMetricMap,
     mTrackerToMetricMap |-> mgr.mTrackerToMetricMap,
     mTrackerToConditionMap |-> mgr.mTrackerToConditionMap]

\* MetricsManager::MetricsManager with a well-formed config
UpdatedConstructed(config, isAtLeastU) ==
    /\ updated =
           Assigned([isAtLeastU |-> isAtLeastU,
                     mRestrictedMetricsDelegatePackageName |-> "nullopt",
                     mTagIdsToMatchersMap |-> <<>>, mConditionToMetricMap |-> <<>>,
                     mTrackerToMetricMap |-> <<>>, mTrackerToConditionMap |-> <<>>,
                     mInvalidConfigReason |-> "nullopt",
                     mAllAtomMatchingTrackers |-> <<>>, mAllConditionTrackers |-> <<>>,
                     mAllMetricProducers |-> <<>>, mAllAnomalyTrackers |-> <<>>,
                     settings |-> 0],
                    config, updateStatsdConfig(config))
    /\ uev = [kind |-> "install", config |-> config, returned |-> TRUE,
              before |-> <<>>, valid |-> TRUE]

\* ------------------------------------ MetricsManager, install and remove
\* What a configuration registers outside its manager: state listeners with
\* the StateManager (pairs of state atom and metric), its manager as
\* pull-uid provider with the puller manager, and the alarms its duration
\* anomaly trackers have set with the alarm monitor (pairs of alert and key).
\* declared counts the anomalies declared.
StateAtoms == 1..2

MaxLifecycleMetrics == 2

\* A config lists for each of its metrics the state atoms it is sliced by,
\* and whether an alert watches it; it may name a restricted-metrics
\* delegate on a release that has none.
LifecycleConfigs ==
    [slicedStateAtoms : UNION {[1..n -> SUBSET StateAtoms] : n \in 1..MaxLifecycleMetrics},
     alerts : SUBSET (1..MaxLifecycleMetrics),
     restrictedNotEnabled : BOOLEAN]

NoManager == [alive |-> FALSE, mAllMetricProducers |-> <<>>, mAllAnomalyTrackers |-> {}]

\* MetricsManager::MetricsManager: initStatsdConfig creates the producers,
\* which register as listeners of the state atoms they are sliced by, and
\* the anomaly trackers; the manager registers as pull-uid provider.  A
\* config with a delegate that is not enabled is left at once.
installConfig(env, config) ==
    IF config.restrictedNotEnabled
    THEN [env EXCEPT !.manager = [NoManager EXCEPT !.alive = TRUE]]
    ELSE [env EXCEPT
             !.manager =
                 [alive |-> TRUE,
                  mAllMetricProducers |->
                      [i \in DOMAIN config.slicedStateAtoms |->
                          [getSlicedStateAtoms |-> config.slicedStateAtoms[i]]],
                  mAllAnomalyTrackers |-> config.alerts \cap DOMAIN config.slicedStateAtoms],
             !.listeners = @ \cup {p \in StateAtoms \X DOMAIN config.slicedStateAtoms :
                                      p[1] \in config.slicedStateAtoms[p[2]]},
             !.pullUidProviders = @ \cup {"mConfigKey"}]

\* DurationAnomalyTracker::cancelAllAlarms, called when the tracker is
\* destroyed: its alarms leave the alarm monitor and no anomaly is declared.
cancelAllAlarms(env, alert) ==
    [env EXCEPT !.alarms = {a \in @ : a[1] # alert}]

\* AnomalyTracker::cancelAllAlarms: the base class has no alarms.
cancelAllAlarms_base(env, alert) == env

RECURSIVE CancelEach(_, _)
CancelEach(env, alertsLeft) ==
    IF alertsLeft = {} THEN env
    ELSE LET alert == CHOOSE a \in alertsLeft : TRUE
         IN CancelEach(cancelAllAlarms(env, alert), alertsLeft \ {alert})

\* ~MetricsManager, but the listeners of the first metric alone are
\* unregistered.
destroyMetricsManager_first(env) ==
    LET mgr == env.manager
        unregistered == {p \in env.listeners : p[2] = 1 /\ p[2] \in DOMAIN mgr.mAllMetricProducers}
    IN [CancelEach(env, mgr.mAllAnomalyTrackers) EXCEPT
           !.listeners = @ \ unregistered,
           !.pullUidProviders = @ \ {"mConfigKey"},
           !.manager = NoManager]

\* MetricsManager::~MetricsManager: every producer is unregistered from the
\* state atoms it is sliced by, the manager is unregistered as pull-uid
\* provider, and the members are destroyed, the anomaly trackers with them.
destroyMetricsManager(env) ==
    LET mgr == env.manager
        unregistered ==
            {p \in StateAtoms \X DOMAIN mgr.mAllMetricProducers :
                p[1] \in mgr.mAllMetricProducers[p[2]].getSlicedStateAtoms}
    IN [CancelEach(env, mgr.mAllAnomalyTrackers) EXCEPT
           !.listeners = @ \ unregistered,
           !.pullUidProviders = @ \ {"mConfigKey"},
           !.manager = NoManager]

\* No configuration installed.
NothingInstalled ==
    /\ lifecycle = [manager |-> NoManager, listeners |-> {}, pullUidProviders |-> {},
                    alarms |-> {}, declared |-> 0, installs |-> 0]
    /\ lev = [kind |-> "init", declaredBefore |-> 0, alarmsBefore |-> {},
              listenersBefore |-> {}]

\* ------------------------------------------ MetricsManager, allowed sources
\* The allow-list of log sources is built from the uids the config names
\* (mAllowedUid) and the uids the uid map gives for the packages it names
\* (mAllowedPkg).  One thread re-initialises the list, one checks the
\* credentials of atoms; each is at one position of its method.
mAllowedPkg == <<"pkgA", "pkgB">>

AppUids == {AID_SHELL + 1, AID_SHELL + 2}

mAllowedUid == {AID_SHELL + 3}

\* A uid map that knows no package.
NoAppUids == [pkg \in Range(mAllowedPkg) |-> {}]

\* std::lock_guard on a mutex that is taken without waiting for it.
lock_guard_unguarded(mutex) == TRUE

\* std::lock_guard<std::mutex> lock(mAllowedLogSourcesMutex): the thread
\* goes on once the mutex is free.
lock_guard(mutex) == mutex = "free"

\* The list a re-initialisation from this uid map gives.
AllowedFrom(uidMap) == mAllowedUid \cup UNION {uidMap[pkg] : pkg \in Range(mAllowedPkg)}

\* MetricsManager::MetricsManager: createAllLogSourcesFromConfig has built
\* the list before any other thread knows the manager.
SourcesConstructed(uidMap) ==
    /\ sources = [mAllowedLogSources |-> AllowedFrom(uidMap),
                  mAllowedLogSourcesMutex |-> "free",
                  uidMap |-> uidMap,
                  init |-> [pc |-> "idle", left |-> <<>>],
                  check |-> [pc |-> "idle", uid |-> AID_ROOT]]
    /\ sev = [kind |-> "init", complete |-> AllowedFrom(uidMap),
              previous |-> AllowedFrom(uidMap), uid |-> AID_ROOT, allowed |-> TRUE]

\* ------------------------------------------------- two configurations
\* Two configurations, each with one duration metric, inside one statsd.
\* StatsdStats is one object for the whole process: the producers tell it
\* of a dropped key with their metric id alone, and ask it with that id
\* alone whether the guardrail was hit.
ConfigKeys == {"configA", "configB"}

\* StatsdStats::noteHardDimensionLimitReached(metricId)
noteHardDimensionLimitReached(stats, metricId) == stats \cup {metricId}

\* StatsdStats::hasHitDimensionGuardrail(metricId)
hasHitDimensionGuardrailOf(stats, metricId) == metricId \in stats

\* Both managers as constructed at the time base; configA's metric has id 1
\* and configB's metric the id given.
SilosConstructed(idOfB) ==
    /\ silos = [producers |->
                    [c \in ConfigKeys |->
                        [start |-> TimeBase, num |-> 0, map |-> <<>>, past |-> <<>>,
                         hit |-> FALSE]],
                mMetricId |-> [c \in ConfigKeys |-> IF c = "configA" THEN 1 ELSE idOfB],
                hardDimensionLimitReached |-> {}]
    /\ xev = [kind |-> "init", config |-> "configA", t |-> TimeBase,
              dropped |-> [c \in ConfigKeys |-> FALSE], report |-> NoReport]

\* ------------------------------------------------------ dimension keys
\* A field value of an atom: the atom's tag, the packed field path and the
\* value. The path of the uid of node i of an attribution chain is the chain
\* field (1), the position byte, and the leaf (1); the position byte holds
\* the index in its low 7 bits and, on the last node, the last bit.
MaxChain == 6
kLastBitMask == 2 ^ 7
kClearLastBitDeco == 2 ^ 7 - 1
ChainUids == {AID_SYSTEM, AID_SHELL}
AttributionChains == UNION {[1..n -> ChainUids] : n \in 1..MaxChain}

getField(pos) == (2 ^ 16) + pos * (2 ^ 8) + 1
getPos(field) == (field \div (2 ^ 8)) % (2 ^ 8)

\* the uid values of an atom with the attribution chain given
ValuesOf(chain) ==
    [i \in 1..Len(chain) |->
        [mTag |-> 1,
         mField |-> getField(IF i = Len(chain) THEN kLastBitMask + i ELSE i),
         mValue |-> chain[i]]]

\* position byte & mask byte, for the two masks matchers use
BitAnd(pos, mask) == IF mask = kLastBitMask THEN pos - (pos % kLastBitMask) ELSE pos % kLastBitMask

\* Matcher of the uid of a chain node: LAST has the last bit and a mask that
\* keeps the last bit and drops the index; FIRST and EXACT have the index
\* and a mask that keeps the index and drops the last bit.
Matcher(position) ==
    IF position = "LAST"
    THEN [mField |-> getField(kLastBitMask), mMask |-> kLastBitMask]
    ELSE [mField |-> getField(IF position = "FIRST" THEN 1 ELSE 2), mMask |-> kClearLastBitDeco]
Positions == {"FIRST", "LAST", "EXACT"}

\* the matching values as they stand in the atom: no mask applied
filterValues_unmasked(matcher, values) ==
    SelectSeq(values,
              LAMBDA v : v.mField - getPos(v.mField) * (2 ^ 8)
                             + BitAnd(getPos(v.mField), matcher.mMask) * (2 ^ 8)
                         = matcher.mField)

\* getField() & matcher.mMask
MaskedField(field, matcher) ==
    field - getPos(field) * (2 ^ 8) + BitAnd(getPos(field), matcher.mMask) * (2 ^ 8)

\* Field::matches
matches(field, matcher) ==
    field - getPos(field) * (2 ^ 8) + BitAnd(getPos(field), matcher.mMask) * (2 ^ 8)
        = matcher.mField

\* filterValues(matcherFields, values, output), one matcher field: the
\* matching values, each with its field masked
filterValues(matcher, values) ==
    LET hits == SelectSeq(values, LAMBDA v : matches(v.mField, matcher))
    IN [i \in DOMAIN hits |-> [hits[i] EXCEPT !.mField = MaskedField(@, matcher)]]

\* HashableDimensionKey::operator==
KeyEquals(a, b) ==
    /\ Len(a) = Len(b)
    /\ \A i \in DOMAIN a :
        /\ a[i].mTag = b[i].mTag
        /\ a[i].mField = b[i].mField
        /\ a[i].mValue = b[i].mValue

\* hashDimension: a mix of tag, field and value of every value, in order;
\* the mix is kept to HashBits bits
HashBits == 16
HashMix(hash, data) == (hash * 31 + data) % (2 ^ HashBits)
RECURSIVE hashDimension(_)
hashDimension(key) ==
    IF key = <<>>
    THEN 0
    ELSE HashMix(HashMix(HashMix(hashDimension(SubSeq(key, 1, Len(key) - 1)),
                                 key[Len(key)].mTag),
                         key[Len(key)].mField),
                 key[Len(key)].mValue)

\* the count of the dimension of whatKey goes up by one; the dimension is
\* the one in the map that equals whatKey, or a new one
countMatched(counter, whatKey) ==
    IF \E k \in DOMAIN counter : KeyEquals(k, whatKey)
    THEN [k \in DOMAIN counter |-> IF KeyEquals(k, whatKey) THEN counter[k] + 1 ELSE counter[k]]
    ELSE [k \in DOMAIN counter \cup {whatKey} |-> IF k = whatKey THEN 1 ELSE counter[k]]

KeyedConstructed(position) ==
    /\ keyed = [mDimensionsInWhat |-> Matcher(position), position |-> position,
                mCurrentSlicedCounter |-> <<>>]
    /\ kev = [chains |-> <<>>, keys |-> <<>>]

\* -------------------------------------------------- dimensional sampling
MaxShardCount == 2
MaxShardOffset == 1

\* the sampled what field of an event of dimension d: the uid of the atom
SampledKey(d) == filterValues(Matcher("FIRST"), ValuesOf(<<AID_SYSTEM + d>>))

\* shouldKeepSample(sampledKey, shardOffset, shardCount)
shouldKeepSample(sampledKey, shardOffset, shardCount) ==
    (hashDimension(sampledKey) + shardOffset) % shardCount = 0

\* MetricProducer::passesSampleCheckLocked
passesSampleCheckLocked(s, d) ==
    IF ~s.sampling THEN TRUE ELSE shouldKeepSample(SampledKey(d), s.mShardOffset, s.mShardCount)

\* handleMatchedLogEventValuesLocked with the sample check behind the
\* guardrail of the start
handleSampledLogEventValuesLocked_late(s, matcherIndex, dimensionInWhat, eventTimeNs) ==
    LET q == IF mIsActive THEN flushIfNeededLocked(s.p, eventTimeNs) ELSE s.p
        g == hitGuardRailLocked(q, dimensionInWhat)
    IN IF matcherIndex = mStartIndex /\ g.drop
       THEN g.p
       ELSE IF matcherIndex # mStopAllIndex /\ ~passesSampleCheckLocked(s, dimensionInWhat)
            THEN q
            ELSE handleMatchedLogEventValuesLocked(s.p, matcherIndex, dimensionInWhat,
                                                   eventTimeNs)

\* DurationMetricProducer::handleMatchedLogEventValuesLocked of a metric with
\* sampling: the bucket is flushed, a stop-all is handled, and then the
\* sample check decides whether the event goes any further
handleSampledLogEventValuesLocked(s, matcherIndex, dimensionInWhat, eventTimeNs) ==
    IF eventTimeNs < TimeBase
    THEN s.p
    ELSE LET q == IF mIsActive THEN flushIfNeededLocked(s.p, eventTimeNs) ELSE s.p
             condition == (mCondition = kTrue) /\ mIsActive
         IN IF matcherIndex = mStopAllIndex
            THEN handleStopAll(q, eventTimeNs)
            ELSE IF ~passesSampleCheckLocked(s, dimensionInWhat)
                 THEN q
                 ELSE IF matcherIndex = mStopIndex
                      THEN handleStop(q, dimensionInWhat, eventTimeNs)
                      ELSE handleStartEvent(q, dimensionInWhat, condition, eventTimeNs)

SampledConstructed(shardCount, shardOffset) ==
    /\ sampled = [p |-> [start |-> TimeBase, num |-> 0, map |-> <<>>, past |-> <<>>,
                         hit |-> FALSE],
                  sampling |-> TRUE, mShardCount |-> shardCount, mShardOffset |-> shardOffset,
                  hardDimensionLimitReached |-> FALSE]
    /\ zev = [kind |-> "init", matcherIndex |-> mStartIndex, dim |-> 1, t |-> TimeBase,
              reported |-> {}]

\* ------------------------------------------------- pushed gauge metric
\* A gauge metric of pushed atoms, sliced by uid, with a condition sliced by
\* uid and linked to the metric's uid: mCurrentSlicedBucket and mPastBuckets
\* map a dimension to its atoms and to its closed buckets.
FIRST_N_SAMPLES == "FIRST_N_SAMPLES"
RANDOM_ONE_SAMPLE == "RANDOM_ONE_SAMPLE"
GaugeAtomsLimit == 2
MaxGaugeAtoms == 3
GaugeBuckets == 3
GaugeHorizon == TimeBase + GaugeBuckets * BucketSize

\* the start of the bucket a time lies in
BucketStartOf(t) == TimeBase + ((t - TimeBase) \div BucketSize) * BucketSize

GaugeBucket(start, end, atoms) ==
    [mBucketStartNs |-> start, mBucketEndNs |-> end, mGaugeAtoms |-> atoms]

\* GaugeMetricProducer::flushCurrentBucketLocked
gaugeFlushCurrentBucketLocked(g, eventTimeNs, nextBucketStartTimeNs) ==
    LET fullBucketEndTimeNs == g.mCurrentBucketStartTimeNs + BucketSize
        bucketEnd == IF eventTimeNs < fullBucketEndTimeNs
                     THEN eventTimeNs
                     ELSE fullBucketEndTimeNs
        slices == DOMAIN g.mCurrentSlicedBucket
        old(d) == IF d \in DOMAIN g.mPastBuckets THEN g.mPastBuckets[d] ELSE <<>>
    IN [g EXCEPT
           !.mPastBuckets =
               [d \in DOMAIN g.mPastBuckets \cup slices |->
                   IF d \in slices
                   THEN Append(old(d), GaugeBucket(g.mCurrentBucketStartTimeNs, bucketEnd,
                                                   g.mCurrentSlicedBucket[d]))
                   ELSE old(d)],
           !.mCurrentSlicedBucket = <<>>,
           !.mCurrentBucketStartTimeNs = nextBucketStartTimeNs]

\* GaugeMetricProducer::flushIfNeededLocked
gaugeFlushIfNeededLocked(g, eventTimeNs) ==
    LET currentBucketEndTimeNs == g.mCurrentBucketStartTimeNs + BucketSize
        numBucketsForward == 1 + (eventTimeNs - currentBucketEndTimeNs) \div BucketSize
    IN IF eventTimeNs < currentBucketEndTimeNs
       THEN g
       ELSE gaugeFlushCurrentBucketLocked(
                g, eventTimeNs, currentBucketEndTimeNs + (numBucketsForward - 1) * BucketSize)

\* the condition of any dimension at all, in place of the linked one
query_any(cond, conditionKey) == \E d \in DOMAIN cond : cond[d]

\* ConditionWizard::query with the key the metric's link makes of the atom
query(cond, conditionKey) == cond[conditionKey]

\* the atom is kept while the dimension is below its limit, whatever the
\* sampling type
gaugeOnMatchedLogEventInternalLocked_upToLimit(g, eventKey, condition, atom, eventTimeNs) ==
    IF ~condition
    THEN g
    ELSE LET q == gaugeFlushIfNeededLocked(g, eventTimeNs)
             atoms == IF eventKey \in DOMAIN q.mCurrentSlicedBucket
                      THEN q.mCurrentSlicedBucket[eventKey]
                      ELSE <<>>
         IN IF Len(atoms) >= GaugeAtomsLimit
            THEN q
            ELSE [q EXCEPT !.mCurrentSlicedBucket =
                     [d \in DOMAIN @ \cup {eventKey} |->
                         IF d = eventKey THEN Append(atoms, atom) ELSE @[d]]]

\* GaugeMetricProducer::onMatchedLogEventInternalLocked, pushed atoms
gaugeOnMatchedLogEventInternalLocked(g, eventKey, condition, atom, eventTimeNs) ==
    IF ~condition
    THEN g
    ELSE LET q == gaugeFlushIfNeededLocked(g, eventTimeNs)
             atoms == IF eventKey \in DOMAIN q.mCurrentSlicedBucket
                      THEN q.mCurrentSlicedBucket[eventKey]
                      ELSE <<>>
         IN IF g.mSamplingType = RANDOM_ONE_SAMPLE /\ eventKey \in DOMAIN q.mCurrentSlicedBucket
            THEN q
            ELSE IF Len(atoms) >= GaugeAtomsLimit
                 THEN q
                 ELSE [q EXCEPT !.mCurrentSlicedBucket =
                          [d \in DOMAIN @ \cup {eventKey} |->
                              IF d = eventKey THEN Append(atoms, atom) ELSE @[d]]]

\* MetricProducer::onMatchedLogEventLocked of a metric whose condition is
\* sliced: the condition of the event is the one of its own dimension
gaugeOnMatchedLogEventLocked(g, eventKey, atom, eventTimeNs) ==
    gaugeOnMatchedLogEventInternalLocked(g, eventKey, query(g.cond, eventKey), atom,
                                         eventTimeNs)

\* GaugeMetricProducer::onDumpReportLocked, no partial bucket
gaugeOnDumpReportLocked(g, dumpTimeNs, erase_data) ==
    LET q == gaugeFlushIfNeededLocked(g, dumpTimeNs)
    IN IF erase_data THEN [q EXCEPT !.mPastBuckets = <<>>] ELSE q

GaugeConstructed(samplingType) ==
    /\ gauge = [mSamplingType |-> samplingType,
                mCurrentSlicedBucket |-> <<>>,
                mPastBuckets |-> <<>>,
                mCurrentBucketStartTimeNs |-> TimeBase,
                cond |-> [d \in Dims |-> FALSE]]
    /\ gev = [kind |-> "init", now |-> TimeBase, dumps |-> 0,
              seen |-> [d \in Dims |-> 0],
              true |-> [d \in Dims |-> {}],
              lone |-> FALSE,
              report |-> <<>>]

LaterConstructed ==
    /\ KeyedConstructed("LAST")
    /\ SampledConstructed(1, 0)
    /\ GaugeConstructed(FIRST_N_SAMPLES)

\* ------------------------------------------- MetricsManager, memory limits
\* max_metrics_memory_kb and soft_metrics_memory_kb are int32 fields of the
\* config; the limits are size_t.
INT_MAX == (2 ^ 30 - 1) * 2 + 1
kDefaultMaxMetricsBytesPerConfig == 2 * 1024 * 1024
kHardMaxMetricsBytesPerConfig == 20 * 1024 * 1024
kDefaultBytesPerConfigTriggerGetData == 192 * 1024
kHardMaxTriggerGetDataBytes == 10 * 1024 * 1024

\* config.max_metrics_memory_kb() * 1024, an int times an int.  Where the
\* product does not fit an int the multiplication overflows a signed
\* integer: the build either wraps it to 32 bits or, knowing the factor to
\* be positive, carries the exact product, which is above every limit and
\* is written INT_MAX here.
Times1024(kb, overflow) ==
    IF -(2 ^ 21) <= kb /\ kb < 2 ^ 21
    THEN kb * 1024
    ELSE IF overflow = "wraps"
         THEN LET r == kb % (2 ^ 22)
              IN IF r < 2 ^ 21 THEN r * 1024 ELSE (r - 2 ^ 22) * 1024
         ELSE INT_MAX

\* static_cast<size_t>(product) > limit: a negative int becomes a size_t
\* above every limit
ExceedsAsSizeT(product, limit) == product < 0 \/ product > limit

\* the body shared by setMaxMetricsBytesFromConfig and
\* setTriggerGetDataBytesFromConfig
setBytesFromConfig(field, overflow, default, hardMax) ==
    IF ~field.has
    THEN default
    ELSE IF field.kb <= 0 \/ ExceedsAsSizeT(Times1024(field.kb, overflow), hardMax)
         THEN default
         ELSE Times1024(field.kb, overflow)

\* MetricsManager::setMaxMetricsBytesFromConfig
setMaxMetricsBytesFromConfig(config, overflow) ==
    setBytesFromConfig(config.max_metrics_memory_kb, overflow,
                       kDefaultMaxMetricsBytesPerConfig, kHardMaxMetricsBytesPerConfig)

\* MetricsManager::setTriggerGetDataBytesFromConfig
setTriggerGetDataBytesFromConfig(config, overflow) ==
    setBytesFromConfig(config.soft_metrics_memory_kb, overflow,
                       kDefaultBytesPerConfigTriggerGetData, kHardMaxTriggerGetDataBytes)

\* the values of a memory field the configs carry
MemoryKb ==
    {-1, 0, 1, 192, 2048, 10240, 10241, 20480, 20481, 2 ^ 21 - 1, 2 ^ 21, 2 ^ 22 - 1, 2 ^ 22,
     2 ^ 22 + 1, 2 ^ 22 + 20480, 2 ^ 22 + 20481, INT_MAX}
MemoryFields == {[has |-> FALSE, kb |-> 0]} \cup {[has |-> TRUE, kb |-> kb] : kb \in MemoryKb}
MemoryConfigs == [max_metrics_memory_kb : MemoryFields, soft_metrics_memory_kb : MemoryFields]

\* a manager constructed from, or updated with, the config given
LimitsFrom(config, overflow) ==
    [mMaxMetricsBytes |-> setMaxMetricsBytesFromConfig(config, overflow),
     mTriggerGetDataBytes |-> setTriggerGetDataBytesFromConfig(config, overflow),
     config |-> config,
     overflow |-> overflow,
     updates |-> 0]

\* ------------------------------------------------- pulled gauge metric
\* The members of a GaugeMetricProducer that decide whether it pulls, and
\* the latest call of pullAndMatchEventsLocked with the state it was made in.
CONDITION_CHANGE_TO_TRUE == "CONDITION_CHANGE_TO_TRUE"
SamplingTypes == {RANDOM_ONE_SAMPLE, FIRST_N_SAMPLES, CONDITION_CHANGE_TO_TRUE}

\* GaugeMetricProducer::isPullNeeded
isPullNeeded(g) == g.mIsActive /\ g.mCondition = kTrue

\* GaugeMetricProducer::pullAndMatchEventsLocked, as far as its being called
pullAndMatchEventsLocked(g, timestampNs, by) ==
    [g EXCEPT !.call = [by |-> by, t |-> timestampNs, mIsActive |-> g.mIsActive,
                        mCondition |-> g.mCondition]]

\* MetricProducer::flushLocked: the current bucket ends at eventTimeNs and a
\* partial bucket starts there
pulledFlushLocked(g, eventTimeNs) == [g EXCEPT !.mCurrentBucketStartTimeNs = eventTimeNs]

\* GaugeMetricProducer::notifyAppUpgradeInternalLocked
notifyAppUpgradeInternalLocked(g, eventTimeNs) ==
    LET q == pulledFlushLocked(g, eventTimeNs)
    IN IF q.mIsPulled /\ q.mSamplingType = RANDOM_ONE_SAMPLE /\ q.mIsActive
       THEN pullAndMatchEventsLocked(q, eventTimeNs, "notifyAppUpgrade")
       ELSE q

\* GaugeMetricProducer::onStatsdInitCompleted
onStatsdInitCompleted(g, eventTimeNs) ==
    LET q == pulledFlushLocked(g, eventTimeNs)
    IN IF q.mIsPulled /\ q.mSamplingType = RANDOM_ONE_SAMPLE /\ q.mIsActive
       THEN pullAndMatchEventsLocked(q, eventTimeNs, "onStatsdInitCompleted")
       ELSE q

\* GaugeMetricProducer::onConditionChangedLocked: a pulled metric pulls when
\* its condition turns true while it is active
pulledOnConditionChangedLocked(g, conditionMet, eventTimeNs) ==
    LET q == [g EXCEPT !.mCondition = IF conditionMet THEN kTrue ELSE kFalse]
    IN IF q.mIsPulled /\ conditionMet /\ q.mIsActive
       THEN pullAndMatchEventsLocked(q, eventTimeNs, "onConditionChanged")
       ELSE q

\* GaugeMetricProducer::onActiveStateChangedLocked: a pulled metric pulls
\* when it turns active while its condition is true
pulledOnActiveStateChangedLocked(g, isActive, eventTimeNs) ==
    LET q == [g EXCEPT !.mIsActive = isActive]
    IN IF q.mIsPulled /\ isActive /\ q.mCondition = kTrue
       THEN pullAndMatchEventsLocked(q, eventTimeNs, "onActiveStateChanged")
       ELSE q

PulledConstructed(isPulled, samplingType, condition) ==
    [mIsPulled |-> isPulled, mSamplingType |-> samplingType, mIsActive |-> TRUE,
     mCondition |-> condition, mCurrentBucketStartTimeNs |-> TimeBase, now |-> TimeBase,
     call |-> [by |-> "none", t |-> TimeBase, mIsActive |-> TRUE, mCondition |-> condition]]

\* ------------------------------------- activation and the condition timer
\* ConditionTimer: whether it runs, the time it has counted in the bucket
\* and the timestamp it last (re)started at.
ConditionTimer(initCondition, bucketStartNs) ==
    [mCondition |-> initCondition, mTimerNs |-> 0,
     mLastConditionChangeTimestampNs |-> bucketStartNs]

\* ConditionTimer::onConditionChanged
timerOnConditionChanged(timer, newCondition, timestampNs) ==
    IF newCondition = timer.mCondition THEN timer
    ELSE IF newCondition
         THEN [timer EXCEPT !.mCondition = TRUE,
                            !.mLastConditionChangeTimestampNs = timestampNs]
         ELSE [timer EXCEPT !.mCondition = FALSE,
                            !.mTimerNs = @ + (timestampNs - timer.mLastConditionChangeTimestampNs)]

\* ConditionTimer::newBucketStart: the time counted is handed out and the
\* count starts again at the start of the next bucket
timerNewBucketStart(timer, eventTimeNs, nextBucketStartNs) ==
    [timer EXCEPT !.mTimerNs = 0,
                  !.mLastConditionChangeTimestampNs =
                      IF timer.mCondition THEN nextBucketStartNs ELSE @]

\* The condition timer after flushIfNeededLocked, which hands it to
\* flushCurrentBucketLocked when the bucket has ended.
timerFlushIfNeededLocked(timer, p, eventTimeNs) ==
    LET currentBucketEndTimeNs == getCurrentBucketEndTimeNs(p)
        numBucketsForward == 1 + (eventTimeNs - currentBucketEndTimeNs) \div BucketSize
        nextBucketNs == currentBucketEndTimeNs + (numBucketsForward - 1) * BucketSize
    IN IF currentBucketEndTimeNs > eventTimeNs
       THEN timer
       ELSE timerNewBucketStart(timer, eventTimeNs, nextBucketNs)

\* The condition timer as the constructor of the producer leaves it.
timerConstructed(isActive, condition, startTimeNs) ==
    timerOnConditionChanged(
        timerNewBucketStart(ConditionTimer(FALSE, 0), startTimeNs, startTimeNs),
        isActive /\ condition = kTrue, startTimeNs)

\* onActiveStateChangedLocked, but the trackers are told whatever the
\* condition is.
onActiveStateChangedLocked_any(p, isActive, eventTimeNs) ==
    LET q == IF isActive THEN flushIfNeededLocked(p, eventTimeNs) ELSE p
    IN [q EXCEPT !.map = [d \in DOMAIN q.map |->
                             onConditionChanged(q.map[d], isActive, eventTimeNs)]]

\* DurationMetricProducer::onActiveStateChangedLocked of a metric whose
\* condition is not sliced, the producer's buckets
onActiveStateChangedLocked(p, isActive, eventTimeNs) ==
    IF mCondition # kTrue
    THEN p
    ELSE LET q == IF isActive THEN flushIfNeededLocked(p, eventTimeNs) ELSE p
         IN [q EXCEPT !.map = [d \in DOMAIN q.map |->
                                  onConditionChanged(q.map[d], isActive, eventTimeNs)]]

\* DurationMetricProducer::onActiveStateChangedLocked, the condition timer
timerOnActiveStateChangedLocked(timer, p, isActive, eventTimeNs) ==
    IF mCondition # kTrue
    THEN timer
    ELSE timerOnConditionChanged(
             IF isActive THEN timerFlushIfNeededLocked(timer, p, eventTimeNs) ELSE timer,
             isActive, eventTimeNs)

\* DurationMetricProducer::onConditionChangedLocked, the condition timer
timerOnConditionChangedLocked(timer, p, conditionMet, eventTime) ==
    IF ~mIsActive
    THEN timer
    ELSE timerOnConditionChanged(timerFlushIfNeededLocked(timer, p, eventTime),
                                 conditionMet, eventTime)

\* --------------------------------------------- a metric without a bucket
\* A 64-bit value k * LLONG_MAX + n, with k and n small.
Wide(k, n) == [k |-> k, n |-> n]

\* The value as a signed 64-bit integer holds it: 2^64 = 2 * LLONG_MAX + 2.
RECURSIVE Wrap64(_)
Wrap64(v) ==
    IF v.k >= 2 \/ (v.k = 1 /\ v.n > 0) THEN Wrap64(Wide(v.k - 2, v.n - 2))
    ELSE IF v.k <= -2 \/ (v.k = -1 /\ v.n < -1) THEN Wrap64(Wide(v.k + 2, v.n + 2))
    ELSE v

\* v > t, for a 64-bit v and a small t
WideGreater(v, t) == v.k > 0 \/ (v.k = 0 /\ v.n > t)

\* v / LLONG_MAX, for a 64-bit v: the quotient is truncated towards zero
DivLLONG_MAX(v) ==
    IF v.k = 0 THEN 0
    ELSE IF v.k = 1 THEN (IF v.n = 0 THEN 1 ELSE 0)
    ELSE IF v.n <= 0 THEN -1 ELSE 0

\* MetricProducer::getCurrentBucketEndTimeNs with mBucketSizeNs = LLONG_MAX,
\* before it is held in 64 bits
unbucketedBucketEndTimeNs(u) == Wide(u.mCurrentBucketNum + 1, u.mTimeBaseNs)

\* flushIfNeededLocked, but of a metric that keeps to its first bucket.
unbucketedFlushIfNeededLocked_never(u, eventTimeNs) == u

\* DurationMetricProducer::flushIfNeededLocked and flushCurrentBucketLocked
\* with mBucketSizeNs = LLONG_MAX: each sum, difference and product that
\* does not fit 64 bits wraps or, on a build that traps, ends the process.
unbucketedFlushIfNeededLocked(u, eventTimeNs) ==
    LET currentBucketEndTimeNs == Wrap64(unbucketedBucketEndTimeNs(u))
        difference == Wide(-currentBucketEndTimeNs.k, eventTimeNs - currentBucketEndTimeNs.n)
        numBucketsForward == 1 + DivLLONG_MAX(Wrap64(difference))
        nextBucketNs == Wide(currentBucketEndTimeNs.k + (numBucketsForward - 1),
                             currentBucketEndTimeNs.n)
        overflows == \/ Wrap64(unbucketedBucketEndTimeNs(u)) # unbucketedBucketEndTimeNs(u)
                     \/ /\ ~WideGreater(currentBucketEndTimeNs, eventTimeNs)
                        /\ \/ Wrap64(difference) # difference
                           \/ Wrap64(nextBucketNs) # nextBucketNs
    IN IF u.aborted THEN u
       ELSE IF overflows /\ u.overflow = "traps" THEN [u EXCEPT !.aborted = TRUE]
       ELSE IF WideGreater(currentBucketEndTimeNs, eventTimeNs) THEN u
       ELSE [u EXCEPT !.mCurrentBucketStartTimeNs = Wrap64(nextBucketNs),
                      !.mCurrentBucketNum = @ + numBucketsForward]

\* DurationMetricProducer::DurationMetricProducer of a metric with or
\* without a bucket: the bucket size, and the bucket that holds startTimeNs
UnbucketedConstructed(has_bucket, timeBaseNs, startTimeNs, overflow) ==
    LET u == [has_bucket |-> has_bucket, mTimeBaseNs |-> timeBaseNs,
              startTimeNs |-> startTimeNs, overflow |-> overflow, aborted |-> FALSE,
              mCurrentBucketNum |-> 0, mCurrentBucketStartTimeNs |-> Wide(0, timeBaseNs),
              now |-> startTimeNs]
        flushed == unbucketedFlushIfNeededLocked(u, startTimeNs)
    IN IF has_bucket THEN u
       ELSE IF flushed.aborted THEN flushed
       ELSE [flushed EXCEPT !.mCurrentBucketStartTimeNs = Wide(0, startTimeNs)]

\* ------------------------------------- MetricsManager, active status
\* A manager with the matchers, conditions and metrics of the one above,
\* whose config says which metrics have an activation and which matchers
\* activate and deactivate them.  In "all" every metric has one: matcher 1
\* activates metrics 1 and 3, matcher 2 activates metric 2 and deactivates
\* metric 1, and matcher 3, which matches whenever matcher 1 does,
\* deactivates metric 3.  In "some" only metric 3 has one.
ActivationConfigs ==
    [all |-> [mMetricIndexesWithActivation |-> <<1, 2, 3>>,
              mActivationAtomTrackerToMetricMap |-> (1 :> <<1, 3>>) @@ (2 :> <<2>>),
              mDeactivationAtomTrackerToMetricMap |-> (2 :> <<1>>) @@ (3 :> <<3>>)],
     some |-> [mMetricIndexesWithActivation |-> <<3>>,
               mActivationAtomTrackerToMetricMap |-> (1 :> <<3>>),
               mDeactivationAtomTrackerToMetricMap |-> (3 :> <<3>>)]]

\* MetricProducer::isActive
producerIsActive(producer) == producer.mIsActive

\* MetricsManager::initializeConfigActiveStatus
initializeConfigActiveStatus(mgr) ==
    LET always == \/ Len(mgr.mMetricIndexesWithActivation) # Cardinality(DOMAIN mgr.producers)
                  \/ Cardinality(DOMAIN mgr.producers) = 0
    IN [mgr EXCEPT !.mIsAlwaysActive = always,
                   !.mIsActive = always \/ \E metric \in Range(mgr.mMetricIndexesWithActivation) :
                                               producerIsActive(mgr.producers[metric])]

\* MetricsManager::MetricsManager: the producers of a metric with an
\* activation start inactive
ActivatedConstructed(name, valid) ==
    LET config == ActivationConfigs[name]
    IN initializeConfigActiveStatus(
           config @@
           [name |-> name, mConfigValid |-> valid, mIsActive |-> FALSE,
            mIsAlwaysActive |-> FALSE,
            conditions |-> [i \in Conditions |-> kUnknown],
            producers |-> [metricIndex \in Metrics |->
                [mCondition |-> kUnknown,
                 hasActivation |-> metricIndex \in Range(config.mMetricIndexesWithActivation),
                 mIsActive |-> metricIndex \notin Range(config.mMetricIndexesWithActivation),
                 expire |-> 0,
                 handledUnder |-> "none"]],
            last |-> [op |-> "init", t |-> 0, passed |-> TRUE, trace |-> <<>>]])

\* Lines 542-621 of onLogEvent with the maps of the manager's config.
activatedMatchersDone(mgr, event, matchersIt) ==
    LET eventTimeNs == event.t
        r0 == FlushExpired([Locals(mgr) EXCEPT !.isActive = mgr.mIsAlwaysActive],
                           mgr.mMetricIndexesWithActivation, eventTimeNs)
        r1 == RunMatchers(r0, matchersIt.second, event)
        r2 == CancelActivations(
                  r1, MatchedPairs(mgr.mDeactivationAtomTrackerToMetricMap, r1.matcherCache))
        r3 == FlushCanceled(r2, Ascending(r2.canceled), eventTimeNs)
        r4 == [r3 EXCEPT !.isActive = @ \/ r3.activeMetricsIndices # {}]
    IN Activate(r4, MatchedPairs(mgr.mActivationAtomTrackerToMetricMap, r4.matcherCache),
                eventTimeNs)

\* The same lines, but the activations are turned on before the
\* cancellations are applied.
activatedMatchersDone_activateFirst(mgr, event, matchersIt) ==
    LET eventTimeNs == event.t
        r0 == FlushExpired([Locals(mgr) EXCEPT !.isActive = mgr.mIsAlwaysActive],
                           mgr.mMetricIndexesWithActivation, eventTimeNs)
        r1 == RunMatchers(r0, matchersIt.second, event)
        r2 == Activate(r1, MatchedPairs(mgr.mActivationAtomTrackerToMetricMap, r1.matcherCache),
                       eventTimeNs)
        r3 == CancelActivations(
                  r2, MatchedPairs(mgr.mDeactivationAtomTrackerToMetricMap, r2.matcherCache))
        r4 == FlushCanceled(r3, Ascending(r3.canceled), eventTimeNs)
    IN [r4 EXCEPT !.isActive = @ \/ r4.activeMetricsIndices # {}]

\* onLogEvent, but with activatedMatchersDone_activateFirst.
activatedOnLogEvent_activateFirst(mgr, event) ==
    LET matchersIt == FindMatchers(event.tag)
        r0 == FlushExpired([Locals(mgr) EXCEPT !.isActive = mgr.mIsAlwaysActive],
                           mgr.mMetricIndexesWithActivation, event.t)
        passed(r, active) ==
            [mgr EXCEPT !.conditions = r.conditions, !.producers = r.producers,
                        !.mIsActive = active,
                        !.last = [op |-> "onLogEvent", t |-> event.t, passed |-> TRUE,
                                  trace |-> r.trace]]
    IN IF ~isConfigValid(mgr) \/ ~checkLogCredentials(event)
       THEN [mgr EXCEPT !.last = [op |-> "onLogEvent", t |-> event.t, passed |-> FALSE,
                                  trace |-> <<>>]]
       ELSE IF ~matchersIt.found \/ event.headerOnly
       THEN passed(r0, mgr.mIsAlwaysActive \/ r0.activeMetricsIndices # {})
       ELSE LET r == activatedMatchersDone_activateFirst(mgr, event, matchersIt)
            IN passed(MatchedDone(ConditionsDone(r)), r.isActive)

\* MetricsManager::onLogEvent of that manager
activatedOnLogEvent(mgr, event) ==
    LET matchersIt == FindMatchers(event.tag)
        r0 == FlushExpired([Locals(mgr) EXCEPT !.isActive = mgr.mIsAlwaysActive],
                           mgr.mMetricIndexesWithActivation, event.t)
        passed(r, active) ==
            [mgr EXCEPT !.conditions = r.conditions, !.producers = r.producers,
                        !.mIsActive = active,
                        !.last = [op |-> "onLogEvent", t |-> event.t, passed |-> TRUE,
                                  trace |-> r.trace]]
        failed == [mgr EXCEPT !.last = [op |-> "onLogEvent", t |-> event.t, passed |-> FALSE,
                                        trace |-> <<>>]]
    IN IF ~isConfigValid(mgr) THEN failed
       ELSE IF ~checkLogCredentials(event) THEN failed
       ELSE IF ~matchersIt.found
       THEN passed(r0, mgr.mIsAlwaysActive \/ r0.activeMetricsIndices # {})
       ELSE IF event.headerOnly
       THEN passed(r0, mgr.mIsAlwaysActive \/ r0.activeMetricsIndices # {})
       ELSE LET r == activatedMatchersDone(mgr, event, matchersIt)
            IN passed(MatchedDone(ConditionsDone(r)), r.isActive)

\* MetricProducer::loadActiveMetric: an activation saved with time left is
\* live again for that long
loadActiveMetric(producer, activeMetric, currentTimeNs) ==
    IF producer.hasActivation /\ activeMetric.remaining_ttl_nanos > 0
    THEN [producer EXCEPT !.mIsActive = TRUE,
                          !.expire = currentTimeNs + activeMetric.remaining_ttl_nanos]
    ELSE producer

\* The loop of loadActiveConfig over the metrics of the saved config, each
\* looked up among the metrics with an activation; the manager's flag is
\* assigned or accumulated.
RECURSIVE LoadActiveMetrics(_, _, _, _)
LoadActiveMetrics(mgr, metrics, currentTimeNs, accumulate) ==
    IF metrics = <<>> THEN mgr
    ELSE LET activeMetric == Head(metrics)
             found == activeMetric.id \in Range(mgr.mMetricIndexesWithActivation)
             metric == loadActiveMetric(mgr.producers[activeMetric.id], activeMetric,
                                        currentTimeNs)
         IN LoadActiveMetrics(
                IF ~found THEN mgr
                ELSE [mgr EXCEPT !.producers[activeMetric.id] = metric,
                                 !.mIsActive = IF accumulate THEN @ \/ producerIsActive(metric)
                                               ELSE producerIsActive(metric)],
                Tail(metrics), currentTimeNs, accumulate)

\* loadActiveConfig, but the flag follows the metric loaded last.
loadActiveConfig_last(mgr, config, currentTimeNs) ==
    [LoadActiveMetrics(mgr, config, currentTimeNs, FALSE)
        EXCEPT !.last = [op |-> "loadActiveConfig", t |-> currentTimeNs, passed |-> TRUE,
                         trace |-> <<>>]]

\* MetricsManager::loadActiveConfig
loadActiveConfig(mgr, config, currentTimeNs) ==
    [(IF Len(config) = 0 THEN mgr ELSE LoadActiveMetrics(mgr, config, currentTimeNs, TRUE))
        EXCEPT !.last = [op |-> "loadActiveConfig", t |-> currentTimeNs, passed |-> TRUE,
                         trace |-> <<>>]]

\* MetricsManager::updateConfig, as far as the active status goes: the
\* producers of the metrics in preserved are kept, the others are made anew,
\* and the status is initialized again
activatedUpdateConfig(mgr, name, preserved, currentTimeNs) ==
    LET fresh == ActivatedConstructed(name, mgr.mConfigValid)
    IN [initializeConfigActiveStatus(
            [fresh EXCEPT !.producers = [metricIndex \in Metrics |->
                              IF metricIndex \in preserved THEN mgr.producers[metricIndex]
                              ELSE @[metricIndex]],
                          !.conditions = mgr.conditions])
          EXCEPT !.last = [op |-> "updateConfig", t |-> currentTimeNs, passed |-> TRUE,
                           trace |-> <<>>]]

\* --------------------------------------------- MetricsManager, metadata
\* A manager of the alerts and metrics with ids 1 and 2; mAlertTrackerMap
\* and mMetricProducerMap give the index of each in mAllAnomalyTrackers and
\* mAllMetricProducers.  Each tracker and producer is the sequence of the
\* metadata entries (their positions in the metadata) the latest
\* loadMetadata loaded into it.
MetadataIds == 1..3
mAlertTrackerMap == (1 :> 1) @@ (2 :> 0)
mMetricProducerMap == (1 :> 1) @@ (2 :> 0)

\* What dereferencing the end iterator of mMetricProducerMap may yield: the
\* index of a producer, or (-1) a fault or the index of none, which both
\* end the process.
EndOutcomes == {-1, 0, 1}

MetadataConstructed ==
    [mAllAnomalyTrackers |-> [i \in 0..1 |-> <<>>],
     mAllMetricProducers |-> [i \in 0..1 |-> <<>>],
     crashed |-> FALSE,
     metadata |-> [alert_metadata |-> <<>>, metric_metadata |-> <<>>]]

\* The loop of loadMetadata over alert_metadata, from position i on
RECURSIVE LoadAlerts(_, _, _)
LoadAlerts(mgr, alert_metadata, i) ==
    IF i > Len(alert_metadata) THEN mgr
    ELSE LET alertId == alert_metadata[i]
         IN LoadAlerts(
                IF alertId \notin DOMAIN mAlertTrackerMap THEN mgr
                ELSE [mgr EXCEPT !.mAllAnomalyTrackers[mAlertTrackerMap[alertId]] =
                                     Append(@, i)],
                alert_metadata, i + 1)

\* The loop over metric_metadata, but an id that is not found is skipped.
RECURSIVE LoadMetrics_continue(_, _, _, _)
LoadMetrics_continue(mgr, metric_metadata, i, end) ==
    IF i > Len(metric_metadata) THEN mgr
    ELSE LET metricId == metric_metadata[i]
         IN LoadMetrics_continue(
                IF metricId \notin DOMAIN mMetricProducerMap THEN mgr
                ELSE [mgr EXCEPT !.mAllMetricProducers[mMetricProducerMap[metricId]] =
                                     Append(@, i)],
                metric_metadata, i + 1, end)

\* The loop of loadMetadata over metric_metadata, from position i on: for an
\* id that is not found the end iterator is dereferenced, with outcome end
RECURSIVE LoadMetrics(_, _, _, _)
LoadMetrics(mgr, metric_metadata, i, end) ==
    IF i > Len(metric_metadata) \/ mgr.crashed THEN mgr
    ELSE LET metricId == metric_metadata[i]
             second == IF metricId \in DOMAIN mMetricProducerMap
                       THEN mMetricProducerMap[metricId]
                       ELSE end
         IN LoadMetrics(
                IF second \notin DOMAIN mgr.mAllMetricProducers
                THEN [mgr EXCEPT !.crashed = TRUE]
                ELSE [mgr EXCEPT !.mAllMetricProducers[second] = Append(@, i)],
                metric_metadata, i + 1, end)

\* loadMetadata, but with LoadMetrics_continue.
loadMetadata_continue(mgr, metadata, end) ==
    LoadMetrics_continue(
        LoadAlerts([MetadataConstructed EXCEPT !.metadata = metadata],
                   metadata.alert_metadata, 1),
        metadata.metric_metadata, 1, end)

\* MetricsManager::loadMetadata
loadMetadata(mgr, metadata, end) ==
    LoadMetrics(
        LoadAlerts([MetadataConstructed EXCEPT !.metadata = metadata],
                   metadata.alert_metadata, 1),
        metadata.metric_metadata, 1, end)

\* ------------------------------------------ duration anomaly alarms
\* The alarms of the duration anomaly trackers of one config: tracker 1
\* watches keys 1 and 2, tracker 2 key 1.  An alarm is a handle 1..MaxAlarms
\* with a deadline in seconds; mAlarms gives the handle each tracker holds
\* for each key (0 for none), monitor the handles the alarm monitor holds,
\* firedAlarms the handles the monitor has popped and not yet delivered.
\* History: the tracker and key each handle was made for, what became of
\* it and whether its deadline had passed by then, who declared an anomaly
\* for it, which trackers consumed it, and the handles ever popped.
MaxAlarms == 2
LastAlarmSec == 2

AlarmKeys == {<<1, 1>>, <<1, 2>>, <<2, 1>>}
AlarmTrackers == {1, 2}
AlarmIds == 1..MaxAlarms

AlarmsConstructed ==
    [mAlarms |-> [k \in AlarmKeys |-> 0],
     monitor |-> {},
     firedAlarms |-> {},
     timestampSec |-> [a \in AlarmIds |-> 0],
     madeFor |-> [a \in AlarmIds |-> <<0, 0>>],
     fate |-> [a \in AlarmIds |-> "unused"],
     late |-> [a \in AlarmIds |-> FALSE],
     declaredBy |-> [a \in AlarmIds |-> <<>>],
     consumedBy |-> [a \in AlarmIds |-> {}],
     popped |-> {},
     made |-> 0,
     now |-> 0]

\* An alarm leaves its tracker at timestamp t with the fate given.
Leaves(al, a, t, fate) ==
    [al EXCEPT !.fate[a] = fate, !.late[a] = t >= al.timestampSec[a]]

\* DurationAnomalyTracker::startAlarm: the alarm of the key is replaced
startAlarm(al, k, timestampSec) ==
    LET old == al.mAlarms[k]
        a == al.made + 1
        removed == IF old = 0 THEN al
                   ELSE [Leaves(al, old, al.now, "replaced") EXCEPT !.monitor = @ \ {old}]
    IN [removed EXCEPT !.mAlarms[k] = a,
                       !.monitor = @ \cup {a},
                       !.timestampSec[a] = timestampSec,
                       !.madeFor[a] = k,
                       !.fate[a] = "pending",
                       !.made = a]

\* stopAlarm, but an alarm that should have fired is stopped like any other.
stopAlarm_silent(al, k, timestamp) ==
    LET a == al.mAlarms[k]
    IN IF a = 0 THEN al
       ELSE [Leaves(al, a, timestamp, "stopped") EXCEPT
                !.monitor = @ \ {a},
                !.mAlarms[k] = 0]

\* DurationAnomalyTracker::stopAlarm: an alarm that should have fired
\* already has its anomaly declared now
stopAlarm(al, k, timestamp) ==
    LET a == al.mAlarms[k]
    IN IF a = 0 THEN al
       ELSE [Leaves(al, a, timestamp, "stopped") EXCEPT
                !.declaredBy[a] = IF timestamp >= al.timestampSec[a]
                                  THEN Append(@, "stopAlarm") ELSE @,
                !.monitor = @ \ {a},
                !.mAlarms[k] = 0]

\* DurationAnomalyTracker::cancelAllAlarms: no anomaly is declared
trackerCancelAllAlarms(al, tracker) ==
    LET mine == {k \in AlarmKeys : k[1] = tracker /\ al.mAlarms[k] # 0}
        handles == {al.mAlarms[k] : k \in mine}
    IN [al EXCEPT !.mAlarms = [k \in AlarmKeys |-> IF k \in mine THEN 0 ELSE @[k]],
                  !.monitor = @ \ handles,
                  !.fate = [a \in AlarmIds |-> IF a \in handles THEN "cancelled" ELSE @[a]],
                  !.late = [a \in AlarmIds |->
                               IF a \in handles THEN al.now >= al.timestampSec[a] ELSE @[a]]]

\* DurationAnomalyTracker::informAlarmsFired: an anomaly is declared for
\* each fired alarm the tracker holds, which leaves firedAlarms and mAlarms
informAlarmsFired(al, tracker, timestamp) ==
    LET mine == {k \in AlarmKeys : k[1] = tracker /\ al.mAlarms[k] \in al.firedAlarms}
        handles == {al.mAlarms[k] : k \in mine}
    IN [al EXCEPT !.mAlarms = [k \in AlarmKeys |-> IF k \in mine THEN 0 ELSE @[k]],
                  !.firedAlarms = @ \ handles,
                  !.fate = [a \in AlarmIds |-> IF a \in handles THEN "fired" ELSE @[a]],
                  !.late = [a \in AlarmIds |->
                               IF a \in handles THEN timestamp >= al.timestampSec[a] ELSE @[a]],
                  !.declaredBy = [a \in AlarmIds |->
                                     IF a \in handles THEN Append(@[a], "informAlarmsFired")
                                     ELSE @[a]],
                  !.consumedBy = [a \in AlarmIds |->
                                     IF a \in handles THEN @[a] \cup {tracker} ELSE @[a]]]

\* MetricsManager::onAnomalyAlarmFired: every tracker is informed in turn;
\* what is left of the set is dropped by the caller
onAnomalyAlarmFired(al, timestamp) ==
    [informAlarmsFired(informAlarmsFired(al, 1, timestamp), 2, timestamp)
        EXCEPT !.firedAlarms = {}]

\* ------------------------------------------ sliced condition changes
\* A duration metric whose condition is sliced, with one link that covers
\* every dimension of the sliced condition.  The condition is either simple
\* or the AND of an unsliced part and one sliced child; the wizard knows the
\* state of the unsliced part (unsliced) and, per condition dimension, how
\* many starts the sliced child holds (slicedDimensionMap).  What key w is
\* linked to the condition dimension LinkedDimension(w).  Two producers
\* see the same events: one whose wizard says the changed dimensions are
\* trackable (its trackers' conditions are mCurrentSlicedDurationTrackerMap)
\* and one whose wizard says they are not (requeried).
WhatKeys == 1..3
ConditionDimensions == 1..2

\* getDimensionForCondition with mMetric2ConditionLinks[0]
LinkedDimension(w) == ((w - 1) % 2) + 1

SlicedConstructed(simple) ==
    [mIsActive |-> TRUE,
     mConditionSliced |-> TRUE,
     IsSimpleCondition |-> simple,
     unsliced |-> kUnknown,
     slicedDimensionMap |-> [d \in ConditionDimensions |-> 0],
     dimensionsChangedToTrue |-> {},
     dimensionsChangedToFalse |-> {},
     mUnSlicedPartCondition |-> kUnknown,
     mCurrentSlicedDurationTrackerMap |-> <<>>,
     requeried |-> <<>>,
     together |-> FALSE]

\* ConditionWizard::query for one condition dimension
slicedQuery(s, d) ==
    IF s.slicedDimensionMap[d] = 0 THEN kFalse
    ELSE IF s.IsSimpleCondition THEN kTrue
    ELSE s.unsliced

\* DurationTracker::onSlicedConditionMayChange: the tracker asks the wizard
requery(s, trackers) ==
    [w \in DOMAIN trackers |-> slicedQuery(s, LinkedDimension(w)) = kTrue]

\* DurationMetricProducer::onSlicedConditionMayChangeLocked_opt1, for one
\* link that covers the condition's dimensions
onSlicedConditionMayChangeLocked_opt1(s) ==
    IF ~s.IsSimpleCondition /\ s.mUnSlicedPartCondition = kFalse /\ s.unsliced = kFalse
    THEN s
    ELSE LET cached == IF s.IsSimpleCondition THEN s.mUnSlicedPartCondition ELSE s.unsliced
             currentUnSlicedPartCondition == s.IsSimpleCondition \/ cached = kTrue
             trackers == s.mCurrentSlicedDurationTrackerMap
             fromUnsliced ==
                 [w \in DOMAIN trackers |->
                     IF s.slicedDimensionMap[LinkedDimension(w)] > 0
                     THEN currentUnSlicedPartCondition
                     ELSE trackers[w]]
             fromSliced ==
                 [w \in DOMAIN trackers |->
                     IF LinkedDimension(w) \in s.dimensionsChangedToFalse THEN FALSE
                     ELSE IF LinkedDimension(w) \in s.dimensionsChangedToTrue THEN TRUE
                     ELSE trackers[w]]
         IN [s EXCEPT !.mUnSlicedPartCondition = cached,
                      !.mCurrentSlicedDurationTrackerMap =
                          IF s.dimensionsChangedToTrue = {} /\ s.dimensionsChangedToFalse = {}
                          THEN fromUnsliced
                          ELSE IF currentUnSlicedPartCondition THEN fromSliced
                          ELSE trackers]

\* DurationMetricProducer::onSlicedConditionMayChangeInternalLocked, in the
\* producer whose changed dimensions are trackable and in the one whose
\* are not
onSlicedConditionMayChangeInternalLocked(s) ==
    [onSlicedConditionMayChangeLocked_opt1(s) EXCEPT !.requeried = requery(s, @)]

\* DurationMetricProducer::onSlicedConditionMayChangeLocked
onSlicedConditionMayChangeLocked(s) ==
    IF ~s.mIsActive \/ ~s.mConditionSliced THEN s
    ELSE onSlicedConditionMayChangeInternalLocked(s)

\* The wizard after an event that moves the unsliced part to a state and
\* the sliced child's dimensions as given
ConditionsEvaluated(s, unsliced, changedToTrue, changedToFalse) ==
    [s EXCEPT !.unsliced = unsliced,
              !.slicedDimensionMap =
                  [d \in ConditionDimensions |->
                      IF d \in changedToTrue THEN 1
                      ELSE IF d \in changedToFalse THEN 0
                      ELSE @[d]],
              !.dimensionsChangedToTrue = changedToTrue,
              !.dimensionsChangedToFalse = changedToFalse,
              !.together = @ \/ (unsliced # s.unsliced
                                 /\ changedToTrue \cup changedToFalse # {})]

\* A duration starts for a what key: its tracker takes the condition the
\* wizard gives for the linked dimension
slicedStart(s, w) ==
    LET condition == slicedQuery(s, LinkedDimension(w)) = kTrue
    IN [s EXCEPT !.mCurrentSlicedDurationTrackerMap = (w :> condition) @@ @,
                 !.requeried = (w :> condition) @@ @]

\* the components below as constructed by default
FurtherDefault ==
    [limits |-> LimitsFrom([max_metrics_memory_kb |-> [has |-> FALSE, kb |-> 0],
                            soft_metrics_memory_kb |-> [has |-> FALSE, kb |-> 0]],
                           "wraps"),
     pulled |-> PulledConstructed(FALSE, FIRST_N_SAMPLES, kUnknown),
     mConditionTimer |-> ConditionTimer(FALSE, 0),
     activated |-> ActivatedConstructed("some", TRUE),
     loaded |-> MetadataConstructed,
     alarms |-> AlarmsConstructed,
     sliced |-> SlicedConstructed(FALSE),
     unbucketed |-> UnbucketedConstructed(TRUE, TimeBase, TimeBase, "wraps")]

FurtherConstructed == further = FurtherDefault

\* ------------------------------------------------------------- history
\* What the events imply, told apart from what the producer computed.  A key
\* is live between two events when it has an accepted start outstanding, the
\* condition is true and the metric is active.
Live(d) == gAccStarts[d] > 0 /\ mCondition = kTrue /\ mIsActive

\* The outstanding starts of a key after a stop of that key.
AfterStop(n) == IF mNested THEN Max(n - 1, 0) ELSE 0

\* The length of the part of [lo, hi) inside [a, b).
Overlap(lo, hi, a, b) == Max(0, Min(hi, b) - Max(lo, a))

\* The first bucket boundary after a: boundaries are BucketSize apart from
\* the time base.
NextBoundary(a) == TimeBase + ((a - TimeBase) \div BucketSize + 1) * BucketSize

\* The buckets closed when the current bucket start moves from a to b.
RECURSIVE ClosedBuckets(_, _)
ClosedBuckets(a, b) ==
    IF a >= b THEN <<>>
    ELSE LET c == Min(b, NextBoundary(a))
         IN <<[from |-> a, to |-> c]>> \o ClosedBuckets(c, b)

\* The buckets an event closes that leaves the current bucket start at
\* newStart; a dump of the partial bucket closes a bucket even when it comes
\* at the very start of that bucket.
Closed(newStart, partial) ==
    IF partial /\ newStart = mCurrentBucketStartTimeNs
    THEN <<[from |-> newStart, to |-> newStart]>>
    ELSE ClosedBuckets(mCurrentBucketStartTimeNs, newStart)

\* The past buckets of key d to expect from an event at t that moves the
\* current bucket start to newStart: under SUM a bucket holds the time the
\* key was live inside it, under MAX_SPARSE the longest run completed in it.
ExpectedBuckets(d, t, newStart, partial) ==
    LET closed == Closed(newStart, partial)
        liveIn(c) == IF Live(d) THEN Overlap(now, t, c.from, c.to) ELSE 0
        carried(i) == IF i = 1 THEN (IF mAggregationType = SUM THEN gCur[d] ELSE gBest[d])
                      ELSE 0
        duration(i) == IF mAggregationType = SUM
                       THEN carried(i) + liveIn(closed[i])
                       ELSE carried(i)
        all == [i \in 1..Len(closed) |->
                   DurationBucket(closed[i].from, closed[i].to, duration(i))]
    IN SelectSeq(all, LAMBDA b : b.mDuration > 0)

\* The live time of key d the buckets closed by an event at t hold.
LiveClosed(d, t, newStart) ==
    (IF newStart > mCurrentBucketStartTimeNs THEN gCur[d] ELSE 0)
    + (IF Live(d) THEN Overlap(now, t, mCurrentBucketStartTimeNs, newStart) ELSE 0)

\* The history after an event at t that leaves the producer as p and the
\* accepted outstanding starts as acc, that closes the partial bucket when
\* partial and that clears the past buckets when erase.
Record(t, p, acc, partial, erase) ==
    LET moved == partial \/ p.start > mCurrentBucketStartTimeNs
        elapsed(d) == IF Live(d) THEN t - now ELSE 0
        ended(d) == gAccStarts[d] > 0 /\ acc[d] = 0
        isMax == mAggregationType = MAX_SPARSE
    IN /\ now' = t
       /\ gAccStarts' = acc
       /\ gCur' = [d \in Dims |-> gCur[d] + elapsed(d) - LiveClosed(d, t, p.start)]
       /\ gPast' = [d \in Dims |->
                       IF erase THEN 0 ELSE gPast[d] + LiveClosed(d, t, p.start)]
       /\ gRun' = [d \in Dims |->
                      IF ~isMax \/ ended(d) THEN 0 ELSE gRun[d] + elapsed(d)]
       /\ gBest' = [d \in Dims |->
                       LET kept == IF moved THEN 0 ELSE gBest[d]
                       IN IF ~isMax THEN 0
                          ELSE IF ended(d) THEN Max(kept, gRun[d] + elapsed(d))
                          ELSE kept]
       /\ gExp' = [d \in Dims |->
                      IF erase THEN <<>>
                      ELSE gExp[d] \o ExpectedBuckets(d, t, p.start, partial)]

\* The producer once it has flushed for a matched event at t.
Flushed(t) == IF mIsActive THEN flushIfNeededLocked(Self, t) ELSE Self

\* A stop of key d at t ends a run that was live before the bucket t lies in.
Straddles(d, t) ==
    /\ gAccStarts[d] > 0
    /\ AfterStop(gAccStarts[d]) = 0
    /\ gRun[d] + (IF Live(d) THEN t - now ELSE 0) > t - Flushed(t).start

Event(kind, d, t, res) ==
    [kind |-> kind, dim |-> d,
     atEnd |-> t = getCurrentBucketEndTimeNs(Self), res |-> res]

\* ------------------------------------------------------------- actions
\* What an operation of the metric producer leaves alone.
Elsewhere == <<anomalyTracker, aev, gAnomaly, manager, mev, Others>>

Install(p) ==
    /\ mCurrentBucketStartTimeNs' = p.start
    /\ mCurrentBucketNum' = p.num
    /\ mCurrentSlicedDurationTrackerMap' = p.map
    /\ mPastBuckets' = p.past
    /\ mHasHitGuardrail' = p.hit
    /\ UNCHANGED Elsewhere

Config == <<mAggregationType, mNested, mDimensionHardLimit, mIsActive>>

Kept == <<Config, gPartials>>

\* StatsdStats and the history of drops, which only a dropped start and a
\* dump change.
Stats == <<hardDimensionLimitReached, gDropPending>>

\* An operation that writes no report.
NoDump == report' = NoReport

\* onMatchedLogEventLocked with the start matcher
StartEvent(d, t) ==
    LET p == handleMatchedLogEventValuesLocked(Self, mStartIndex, d, t)
        res == IF d \in DOMAIN Flushed(t).map THEN "counted"
               ELSE IF d \in DOMAIN p.map THEN "created"
               ELSE "dropped"
    IN /\ gAllStarts[d] < MaxRefs
       /\ gAccStarts[d] < MaxRefs
       /\ Install(p)
       /\ ev' = Event("start", d, t, res)
       /\ gAllStarts' = [gAllStarts EXCEPT ![d] = @ + 1]
       /\ Record(t, p, [gAccStarts EXCEPT ![d] = IF res = "dropped" THEN @ ELSE @ + 1],
                 FALSE, FALSE)
       /\ hardDimensionLimitReached' = (hardDimensionLimitReached \/ res = "dropped")
       /\ gDropPending' = (gDropPending \/ res = "dropped")
       /\ NoDump
       /\ UNCHANGED <<Kept, mCondition>>

\* onMatchedLogEventLocked with the stop matcher
StopEvent(d, t) ==
    LET p == handleMatchedLogEventValuesLocked(Self, mStopIndex, d, t)
        res == IF d \notin DOMAIN Flushed(t).map THEN "untracked"
               ELSE IF ev.kind = "start" /\ ev.dim = d /\ now = t /\ ev.res = "created"
                       /\ AfterStop(gAccStarts[d]) = 0
                    THEN "zero"
                    ELSE IF Straddles(d, t) THEN "straddle"
                    ELSE "stopped"
    IN /\ Install(p)
       /\ ev' = Event("stop", d, t, res)
       /\ gAllStarts' = [gAllStarts EXCEPT ![d] = AfterStop(@)]
       /\ Record(t, p, [gAccStarts EXCEPT ![d] = AfterStop(@)], FALSE, FALSE)
       /\ NoDump
       /\ UNCHANGED <<Kept, Stats, mCondition>>

\* onMatchedLogEventLocked with the stop-all matcher
StopAllEvent(t) ==
    LET p == handleMatchedLogEventValuesLocked(Self, mStopAllIndex, 0, t)
        res == IF DOMAIN p.map # DOMAIN Flushed(t).map THEN "removed" ELSE "all"
    IN /\ Install(p)
       /\ ev' = Event("stopAll", 0, t, res)
       /\ gAllStarts' = [d \in Dims |-> 0]
       /\ Record(t, p, [d \in Dims |-> 0], FALSE, FALSE)
       /\ NoDump
       /\ UNCHANGED <<Kept, Stats, mCondition>>

\* onMatchedLogEventLocked with an event logged before the time base, which
\* may be delivered at any moment
StaleEvent(matcherIndex, d, t) ==
    /\ matcherIndex = mStartIndex => gAllStarts[d] < MaxRefs
    /\ matcherIndex = mStopAllIndex => d = 1
    /\ Install(handleMatchedLogEventValuesLocked(Self, matcherIndex, d, t))
    /\ ev' = Event(matcherIndex, IF matcherIndex = mStopAllIndex THEN 0 ELSE d, t, "stale")
    /\ gAllStarts' = IF matcherIndex = mStartIndex
                     THEN [gAllStarts EXCEPT ![d] = @ + 1]
                     ELSE IF matcherIndex = mStopIndex
                          THEN [gAllStarts EXCEPT ![d] = AfterStop(@)]
                          ELSE [k \in Dims |-> 0]
    /\ NoDump
    /\ UNCHANGED <<Kept, Stats, mCondition, now, gAccStarts, gCur, gPast, gRun, gBest, gExp>>

\* DurationMetricProducer::onConditionChangedLocked, which MetricsManager
\* calls when the condition has changed
ConditionChanged(conditionMet, t) ==
    /\ mCondition # (IF conditionMet THEN kTrue ELSE kFalse)
    /\ mCondition' = IF conditionMet THEN kTrue ELSE kFalse
    /\ Install(onConditionChangedLocked(Self, conditionMet, t))
    /\ ev' = Event("condition", 0, t, IF conditionMet THEN "true" ELSE "false")
    /\ Record(t, onConditionChangedLocked(Self, conditionMet, t), gAccStarts, FALSE, FALSE)
    /\ NoDump
    /\ UNCHANGED <<Kept, Stats, gAllStarts>>

\* DurationMetricProducer::onDumpReportLocked
DumpReport(t, include_current_partial_bucket, erase_data) ==
    LET p == onDumpReportLocked(Self, t, include_current_partial_bucket, erase_data)
    IN /\ include_current_partial_bucket => gPartials < MaxPartial
       /\ Install(p)
       /\ ev' = Event("dump", 0, t, IF erase_data THEN "erase" ELSE "keep")
       /\ Record(t, p, gAccStarts, include_current_partial_bucket, erase_data)
       /\ gPartials' = gPartials + (IF include_current_partial_bucket THEN 1 ELSE 0)
       /\ report' = WrittenReport(
                        onDumpReportLocked(Self, t, include_current_partial_bucket, FALSE),
                        hardDimensionLimitReached, gDropPending)
       /\ gDropPending' = FALSE
       /\ UNCHANGED <<Config, mCondition, gAllStarts, hardDimensionLimitReached>>

\* DurationMetricProducer::dropDataLocked
DropData(t) ==
    /\ Install(dropDataLocked(Self, t))
    /\ ev' = Event("drop", 0, t, "erase")
    /\ Record(t, dropDataLocked(Self, t), gAccStarts, FALSE, TRUE)
    /\ NoDump
    /\ UNCHANGED <<Kept, Stats, mCondition, gAllStarts>>

\* The state the constructor leaves: the bucket that holds startTimeNs,
\* starting at startTimeNs, and no tracker.
\* An alert over the current bucket alone.
SingleBucketAlert ==
    [num_buckets |-> 1, trigger_if_sum_gt |-> MaxValue, refractory_period_secs |-> 1]

\* The latest operation of the tracker: its kind, the key and current value
\* of detectAndDeclareAnomaly (0 for the others), its bucket number, the most
\* recent bucket number before an operation on buckets (-1 for the others),
\* and what detectAndDeclareAnomaly did.
Operation(kind, key, value, num, from) ==
    [kind |-> kind, key |-> key, value |-> value, num |-> num, from |-> from,
     t |-> 0, declared |-> FALSE, informed |-> 0]

NoOperation == Operation("init", 0, 0, 0, -1)

\* No atom yet.
NoEvent == [tag |-> 0, uid |-> AID_ROOT, field |-> 0, headerOnly |-> FALSE, t |-> 0]

\* MetricsManager::MetricsManager: the conditions start unknown, the metrics
\* with a condition hold its initial value, and metric 3 is not activated.
ManagerConstructed(valid) ==
    /\ manager =
           [mConfigValid |-> valid,
            mIsActive |-> mIsAlwaysActive,
            conditions |-> [i \in Conditions |-> kUnknown],
            producers |-> [metricIndex \in Metrics |->
                [mCondition |-> IF metricIndex = 3 THEN kTrue ELSE kUnknown,
                 hasActivation |-> metricIndex \in Range(mMetricIndexesWithActivation),
                 mIsActive |-> metricIndex \notin Range(mMetricIndexesWithActivation),
                 expire |-> 0,
                 handledUnder |-> "none"]]]
    /\ mev = [event |-> NoEvent, trace |-> <<>>]

AnomalyConstructed(alert) ==
    /\ anomalyTracker = NewAnomalyTracker(alert)
    /\ aev = NoOperation
    /\ gAnomaly = [recent |-> -1, window |-> <<>>, declared |-> <<>>]

ConstructedProducer(startTimeNs) ==
    LET p == flushIfNeededLocked([start |-> TimeBase, num |-> 0, map |-> <<>>,
                                  past |-> <<>>, hit |-> FALSE], startTimeNs)
    IN /\ mCurrentBucketStartTimeNs = startTimeNs
       /\ mCurrentBucketNum = p.num
       /\ mCurrentSlicedDurationTrackerMap = <<>>
       /\ mPastBuckets = <<>>
       /\ mHasHitGuardrail = FALSE
       /\ now = startTimeNs
       /\ ev = [kind |-> "init", dim |-> 0, atEnd |-> FALSE, res |-> "init"]
       /\ gAllStarts = [d \in Dims |-> 0]
       /\ gAccStarts = [d \in Dims |-> 0]
       /\ gCur = [d \in Dims |-> 0]
       /\ gPast = [d \in Dims |-> 0]
       /\ gRun = [d \in Dims |-> 0]
       /\ gBest = [d \in Dims |-> 0]
       /\ gExp = [d \in Dims |-> <<>>]
       /\ gPartials = 0
       /\ hardDimensionLimitReached = FALSE
       /\ report = NoReport
       /\ gDropPending = FALSE

\* The other components as their constructors leave them.
OthersConstructed ==
    /\ OwnerConstructed({}, FALSE, TimeBase)
    /\ UpdatedConstructed(ValidConfig(1), TRUE)
    /\ NothingInstalled
    /\ SourcesConstructed(NoAppUids)
    /\ SilosConstructed(1)
    /\ LaterConstructed

Constructed(startTimeNs) ==
    /\ ConstructedProducer(startTimeNs)
    /\ OthersConstructed
    /\ FurtherConstructed
    /\ AnomalyConstructed(SingleBucketAlert)
    /\ ManagerConstructed(TRUE)

\* A metric of either aggregation type, nested or not, constructed at the
\* time base or inside its first bucket, whose limit of keys
\* is never reached.
Init ==
    /\ mAggregationType \in {SUM, MAX_SPARSE}
    /\ mNested \in BOOLEAN
    /\ mDimensionHardLimit = NumDims
    /\ mCondition \in {kUnknown, kFalse, kTrue}
    /\ mIsActive = TRUE
    /\ \E startTimeNs \in {TimeBase, TimeBase + 1} : Constructed(startTimeNs)

\* The events of one key, logged in timestamp order up to MaxTime.
Next ==
    \/ \E t \in now..MaxTime : StartEvent(1, t)
    \/ \E t \in now..MaxTime : StopEvent(1, t)
    \/ \E t \in now..MaxTime : StopAllEvent(t)
    \/ \E c \in BOOLEAN, t \in now..MaxTime : ConditionChanged(c, t)
    \/ \E t \in now..MaxTime, partial \in BOOLEAN, erase \in BOOLEAN :
           DumpReport(t, partial, erase)
    \/ \E t \in now..MaxTime : DropData(t)

Spec == Init /\ [][Next]_vars

\* A metric whose limit of keys is at or below the number of keys logged.
InitKeys ==
    /\ mAggregationType \in {SUM, MAX_SPARSE}
    /\ mNested \in BOOLEAN
    /\ mDimensionHardLimit \in {NumDims - 1, NumDims}
    /\ mCondition = kTrue
    /\ mIsActive = TRUE
    /\ Constructed(TimeBase)

\* The last tick of the events of several keys: one bucket past the first.
KeysHorizon == TimeBase + BucketSize

\* The events of every key, logged in timestamp order up to KeysHorizon.
NextKeys ==
    \/ \E d \in Dims, t \in now..KeysHorizon : StartEvent(d, t)
    \/ \E d \in Dims, t \in now..KeysHorizon : StopEvent(d, t)
    \/ \E t \in now..KeysHorizon : StopAllEvent(t)
    \/ \E c \in BOOLEAN, t \in now..KeysHorizon : ConditionChanged(c, t)
    \/ \E t \in now..KeysHorizon, erase \in BOOLEAN : DumpReport(t, FALSE, erase)

SpecKeys == InitKeys /\ [][NextKeys]_vars

\* The events of one key, logged in timestamp order up to KeysHorizon, among
\* events logged before the time base, which may be delivered at any moment.
NextStale ==
    \/ \E t \in now..KeysHorizon : StartEvent(1, t)
    \/ \E t \in now..KeysHorizon : StopEvent(1, t)
    \/ \E t \in now..KeysHorizon : StopAllEvent(t)
    \/ \E m \in {mStartIndex, mStopIndex, mStopAllIndex}, t \in StaleTimes :
           StaleEvent(m, 1, t)
    \/ \E c \in BOOLEAN, t \in now..KeysHorizon : ConditionChanged(c, t)
    \/ \E t \in now..KeysHorizon, partial \in BOOLEAN : DumpReport(t, partial, FALSE)

SpecStale == Init /\ [][NextStale]_vars

\* --------------------------------------------- anomaly tracker, driven alone
\* The metric producer stands still while its anomaly tracker is driven
\* with buckets, detections, resets and config updates in any order.  The
\* latest operation is recorded with its bucket number alone.
producerVars ==
    <<mAggregationType, mNested, mDimensionHardLimit, mCondition, mIsActive,
      mCurrentBucketStartTimeNs, mCurrentBucketNum,
      mCurrentSlicedDurationTrackerMap, mPastBuckets, mHasHitGuardrail,
      now, ev, gAllStarts, gAccStarts, gCur, gPast, gRun, gBest, gExp,
      gPartials, hardDimensionLimitReached, report, gDropPending>>

besideAnomaly == <<producerVars, manager, mev, Others>>

AllBuckets == UNION {[S -> 1..MaxValue] : S \in SUBSET Dims}

\* The buckets told of that are among the last n up to bucket number recent.
LastBuckets(window, recent, n) ==
    [b \in {x \in DOMAIN window : x > recent - n /\ window[x] # <<>>} |-> window[b]]

\* The history after the tracker was told that bucketNum holds bucket.
Told(g, n, bucketNum, bucket) ==
    IF n = 0 \/ bucketNum <= g.recent - n THEN g
    ELSE LET recent == IF bucketNum > g.recent THEN bucketNum ELSE g.recent
             window == [b \in DOMAIN g.window \cup {bucketNum} |->
                           IF b = bucketNum THEN bucket ELSE g.window[b]]
         IN [g EXCEPT !.recent = recent,
                      !.window = LastBuckets(window, recent, n)]

\* The history after the tracker was told that bucket currBucketNum began.
Began(g, n, currBucketNum) ==
    IF currBucketNum - 1 <= g.recent THEN g
    ELSE [g EXCEPT !.recent = currBucketNum - 1,
                   !.window = LastBuckets(g.window, currBucketNum - 1, n)]

AddPastBucket(bucket, bucketNum) ==
    /\ anomalyTracker' = addPastBucket(anomalyTracker, bucket, bucketNum)
    /\ aev' = Operation("addPastBucket", 0, 0, bucketNum,
                        anomalyTracker.mMostRecentBucketNum)
    /\ gAnomaly' = Told(gAnomaly, anomalyTracker.mNumOfPastBuckets, bucketNum, bucket)
    /\ UNCHANGED besideAnomaly

AddPastBucketValue(key, bucketValue, bucketNum) ==
    /\ anomalyTracker' = addPastBucketValue(anomalyTracker, key, bucketValue, bucketNum)
    /\ aev' = Operation("addPastBucketValue", 0, 0, bucketNum,
                        anomalyTracker.mMostRecentBucketNum)
    /\ LET had == IF bucketNum \in DOMAIN gAnomaly.window
                  THEN gAnomaly.window[bucketNum] ELSE <<>>
           bucket == [k \in DOMAIN had \cup {key} |->
                         IF k = key THEN bucketValue ELSE had[k]]
       IN gAnomaly' = Told(gAnomaly, anomalyTracker.mNumOfPastBuckets, bucketNum, bucket)
    /\ UNCHANGED besideAnomaly

DetectAnomaly(currBucketNum, key, currentBucketValue) ==
    /\ anomalyTracker' =
           detectAnomaly(anomalyTracker, currBucketNum, key, currentBucketValue).tr
    /\ aev' = Operation("detectAnomaly", 0, 0, currBucketNum,
                        anomalyTracker.mMostRecentBucketNum)
    /\ gAnomaly' = Began(gAnomaly, anomalyTracker.mNumOfPastBuckets, currBucketNum)
    /\ UNCHANGED besideAnomaly

DetectAndDeclareAnomaly(timestamp, currBucketNum, key, currentBucketValue) ==
    LET done == detectAndDeclareAnomaly(anomalyTracker, timestamp, currBucketNum,
                                        key, currentBucketValue)
        began == Began(gAnomaly, anomalyTracker.mNumOfPastBuckets, currBucketNum)
    IN /\ anomalyTracker' = done.tr
       /\ aev' = [Operation("detectAndDeclareAnomaly", key, currentBucketValue,
                            currBucketNum, -1)
                     EXCEPT !.t = timestamp, !.declared = done.declared,
                            !.informed = done.informed]
       /\ gAnomaly' =
              IF done.declared
              THEN [began EXCEPT !.declared =
                       [k \in DOMAIN @ \cup {key} |-> IF k = key THEN timestamp ELSE @[k]]]
              ELSE began
       /\ UNCHANGED besideAnomaly

ResetStorage ==
    /\ anomalyTracker' = resetStorage(anomalyTracker)
    /\ aev' = Operation("resetStorage", 0, 0, 0, -1)
    /\ gAnomaly' = [gAnomaly EXCEPT !.window = <<>>]
    /\ UNCHANGED besideAnomaly

AddSubscription ==
    /\ anomalyTracker.mSubscriptions < 1
    /\ anomalyTracker' = addSubscription(anomalyTracker)
    /\ aev' = Operation("addSubscription", 0, 0, 0, -1)
    /\ UNCHANGED <<gAnomaly, besideAnomaly>>

OnConfigUpdated ==
    /\ anomalyTracker' = onConfigUpdated(anomalyTracker)
    /\ aev' = Operation("onConfigUpdated", 0, 0, 0, -1)
    /\ UNCHANGED <<gAnomaly, besideAnomaly>>

\* A metric producer that stands still.
ProducerIdle ==
    /\ mAggregationType = SUM
    /\ mNested = TRUE
    /\ mDimensionHardLimit = NumDims
    /\ mCondition = kTrue
    /\ mIsActive = TRUE
    /\ ConstructedProducer(TimeBase)

\* An alert over the current bucket and up to MaxPastBuckets past ones.
InitAnomaly ==
    /\ ProducerIdle
    /\ OthersConstructed
    /\ FurtherConstructed
    /\ ManagerConstructed(TRUE)
    /\ \E n \in 1..(MaxPastBuckets + 1) :
           AnomalyConstructed([num_buckets |-> n, trigger_if_sum_gt |-> MaxValue - 1,
                               refractory_period_secs |-> MaxRefractory])

NextAnomaly ==
    \/ \E bucket \in AllBuckets, bucketNum \in 0..MaxBucketNum :
           AddPastBucket(bucket, bucketNum)
    \/ \E key \in Dims, bucketValue \in 1..MaxValue, bucketNum \in 0..MaxBucketNum :
           AddPastBucketValue(key, bucketValue, bucketNum)
    \/ \E key \in Dims, currBucketNum \in 0..(MaxBucketNum + 1) :
           DetectAnomaly(currBucketNum, key, 0)
    \/ ResetStorage
    \/ OnConfigUpdated

SpecAnomaly == InitAnomaly /\ [][NextAnomaly]_vars

\* ------------------------------------------------ anomaly tracker, declaring
\* An alert over the current bucket and at most one past bucket, looked at
\* at any second, in any order.
InitAlert ==
    /\ ProducerIdle
    /\ OthersConstructed
    /\ FurtherConstructed
    /\ ManagerConstructed(TRUE)
    /\ \E n \in 1..2, r \in 1..MaxRefractory :
           AnomalyConstructed([num_buckets |-> n, trigger_if_sum_gt |-> MaxValue - 1,
                               refractory_period_secs |-> r])

NextAlert ==
    \/ \E key \in Dims, bucketValue \in 1..MaxValue :
           AddPastBucketValue(key, bucketValue, 0)
    \/ \E key \in Dims, value \in 0..MaxValue, currBucketNum \in 0..1,
          timestamp \in 0..MaxSec :
           DetectAndDeclareAnomaly(timestamp, currBucketNum, key, value)
    \/ AddSubscription
    \/ OnConfigUpdated

SpecAlert == InitAlert /\ [][NextAlert]_vars

\* ------------------------------------------------ metrics manager, fed atoms
\* The manager of a valid or an invalid configuration is handed atoms of
\* every tag, source and content in the order of their elapsed time.
Events ==
    [tag : Tags, uid : Uids, field : 0..1, headerOnly : BOOLEAN, t : 0..MaxEventTime]

OnLogEvent(event) ==
    /\ event.t >= mev.event.t
    /\ LET done == onLogEvent(manager, event)
       IN /\ manager' = done.mgr
          /\ mev' = [event |-> event, trace |-> done.trace]
    /\ UNCHANGED <<producerVars, anomalyTracker, aev, gAnomaly, Others>>

InitManager ==
    /\ ProducerIdle
    /\ OthersConstructed
    /\ FurtherConstructed
    /\ AnomalyConstructed(SingleBucketAlert)
    /\ \E valid \in BOOLEAN : ManagerConstructed(valid)

NextManager == \E event \in Events : OnLogEvent(event)

SpecManager == InitManager /\ [][NextManager]_vars

\* ------------------------------------------ metrics manager, dumping reports
\* The two producers are handed starts and stops of one key in the order of
\* their timestamps up to DumpHorizon, and the manager is asked for reports.
DumpHorizon == TimeBase + BucketSize + 1

besideOwner ==
    <<producerVars, anomalyTracker, aev, gAnomaly, manager, mev, updated, uev, lifecycle, lev,
      sources, sev, silos, xev, Later, further>>

\* MetricProducer::onMatchedLogEvent of the producer of metric i
OwnedMatched(i, matcherIndex, t) ==
    /\ IF matcherIndex = mStartIndex /\ 1 \in DOMAIN owner.mAllMetricProducers[i].map
       THEN owner.mAllMetricProducers[i].map[1].refcount < MaxRefs
       ELSE TRUE
    /\ owner' = [owner EXCEPT !.mAllMetricProducers[i] =
                    handleMatchedLogEventValuesLocked(@, matcherIndex, 1, t)]
    /\ oev' = [kind |-> "matched", t |-> t, erase_data |-> FALSE]
    /\ UNCHANGED besideOwner

\* MetricsManager::onDumpReport
OnDumpReport(t, include_current_partial_bucket, erase_data) ==
    /\ owner' = onDumpReport(owner, t, getWallClockNs(t),
                             include_current_partial_bucket, erase_data)
    /\ oev' = [kind |-> "dump", t |-> t, erase_data |-> erase_data]
    /\ UNCHANGED besideOwner

InitDump ==
    /\ ProducerIdle
    /\ AnomalyConstructed(SingleBucketAlert)
    /\ ManagerConstructed(TRUE)
    /\ UpdatedConstructed(ValidConfig(1), TRUE)
    /\ NothingInstalled
    /\ SourcesConstructed(NoAppUids)
    /\ SilosConstructed(1)
    /\ LaterConstructed
    /\ FurtherConstructed
    /\ \E noReport \in SUBSET OwnedMetricIds, restricted \in BOOLEAN :
           OwnerConstructed(noReport, restricted, TimeBase)

NextDump ==
    \/ \E i \in OwnedMetricIds, m \in {mStartIndex, mStopIndex}, t \in oev.t..DumpHorizon :
           OwnedMatched(i, m, t)
    \/ \E t \in oev.t..DumpHorizon, partial \in BOOLEAN, erase \in BOOLEAN :
           OnDumpReport(t, partial, erase)

SpecDump == InitDump /\ [][NextDump]_vars

\* ------------------------------------------ metrics manager, updated
\* A manager installed with a well-formed config is handed well-formed and
\* malformed configs, in any order.
besideUpdated ==
    <<producerVars, anomalyTracker, aev, gAnomaly, manager, mev, owner, oev, lifecycle, lev,
      sources, sev, silos, xev, Later, further>>

\* MetricsManager::updateConfig
UpdateConfig(config) ==
    /\ updated' = updateConfig(updated, config)
    /\ uev' = [kind |-> "update", config |-> config,
               returned |-> updated'.mInvalidConfigReason = "nullopt",
               before |-> Installed(updated),
               valid |-> updated.mInvalidConfigReason = "nullopt"]
    /\ UNCHANGED besideUpdated

InitUpdate ==
    /\ ProducerIdle
    /\ AnomalyConstructed(SingleBucketAlert)
    /\ ManagerConstructed(TRUE)
    /\ OwnerConstructed({}, FALSE, TimeBase)
    /\ NothingInstalled
    /\ SourcesConstructed(NoAppUids)
    /\ SilosConstructed(1)
    /\ LaterConstructed
    /\ FurtherConstructed
    /\ \E n \in 1..MaxConfigSize, isAtLeastU \in BOOLEAN :
           UpdatedConstructed(ValidConfig(n), isAtLeastU)

NextUpdate == \E config \in StatsdConfigs : UpdateConfig(config)

SpecUpdate == InitUpdate /\ [][NextUpdate]_vars

\* ------------------------------------- configurations installed and removed
\* A configuration is installed, its duration anomaly trackers set alarms
\* that fire or are stopped, and it is removed; up to MaxInstalls times.
MaxInstalls == 2

besideLifecycle ==
    <<producerVars, anomalyTracker, aev, gAnomaly, manager, mev, owner, oev, updated, uev,
      sources, sev, silos, xev, Later, further>>

Step(kind) ==
    lev' = [kind |-> kind, declaredBefore |-> lifecycle.declared,
            alarmsBefore |-> lifecycle.alarms, listenersBefore |-> lifecycle.listeners]

\* MetricsManager::MetricsManager
InstallConfig(config) ==
    /\ ~lifecycle.manager.alive
    /\ lifecycle.installs < MaxInstalls
    /\ lifecycle' = [installConfig(lifecycle, config) EXCEPT !.installs = @ + 1]
    /\ Step("install")
    /\ UNCHANGED besideLifecycle

\* DurationAnomalyTracker::startAlarm, for a key whose duration is running
StartAlarm(alert, key) ==
    /\ alert \in lifecycle.manager.mAllAnomalyTrackers
    /\ <<alert, key>> \notin lifecycle.alarms
    /\ lifecycle' = [lifecycle EXCEPT !.alarms = @ \cup {<<alert, key>>}]
    /\ Step("startAlarm")
    /\ UNCHANGED besideLifecycle

\* DurationAnomalyTracker::informAlarmsFired: the alarm has fired and the
\* anomaly is declared.
InformAlarmsFired(alert, key) ==
    /\ <<alert, key>> \in lifecycle.alarms
    /\ lifecycle.declared < MaxInstalls
    /\ lifecycle' = [lifecycle EXCEPT !.alarms = @ \ {<<alert, key>>},
                                      !.declared = @ + 1]
    /\ Step("informAlarmsFired")
    /\ UNCHANGED besideLifecycle

\* MetricsManager::~MetricsManager
RemoveConfig ==
    /\ lifecycle.manager.alive
    /\ lifecycle' = destroyMetricsManager(lifecycle)
    /\ Step("remove")
    /\ UNCHANGED besideLifecycle

InitLifecycle ==
    /\ ProducerIdle
    /\ AnomalyConstructed(SingleBucketAlert)
    /\ ManagerConstructed(TRUE)
    /\ OwnerConstructed({}, FALSE, TimeBase)
    /\ UpdatedConstructed(ValidConfig(1), TRUE)
    /\ NothingInstalled
    /\ SourcesConstructed(NoAppUids)
    /\ SilosConstructed(1)
    /\ LaterConstructed
    /\ FurtherConstructed

NextLifecycle ==
    \/ \E config \in LifecycleConfigs : InstallConfig(config)
    \/ \E alert \in 1..MaxLifecycleMetrics, key \in Dims : StartAlarm(alert, key)
    \/ \E alert \in 1..MaxLifecycleMetrics, key \in Dims : InformAlarmsFired(alert, key)
    \/ RemoveConfig

SpecLifecycle == InitLifecycle /\ [][NextLifecycle]_vars

\* ------------------------------------- allowed sources, rebuilt and checked
\* The uid map changes, a snapshot of it makes one thread rebuild the
\* allow-list step by step, and another thread checks the credentials of
\* atoms; the steps of the two threads interleave in any order.
besideSources ==
    <<producerVars, anomalyTracker, aev, gAnomaly, manager, mev, owner, oev, updated, uev,
      lifecycle, lev, silos, xev, Later, further>>

CheckedUids == {AID_SYSTEM, AID_SHELL + 1}

\* UidMap: an app of the package is installed or removed.
UidMapChanged(pkg, uids) ==
    /\ sources.uidMap[pkg] # uids
    /\ sources' = [sources EXCEPT !.uidMap[pkg] = uids]
    /\ sev' = [sev EXCEPT !.kind = "uidMap"]
    /\ UNCHANGED besideSources

\* onUidMapReceived: the list is re-initialised if the config names packages.
OnUidMapReceived ==
    /\ sources.init.pc = "idle"
    /\ Len(mAllowedPkg) # 0
    /\ sources' = [sources EXCEPT !.init.pc = "lock"]
    /\ sev' = [sev EXCEPT !.kind = "onUidMapReceived"]
    /\ UNCHANGED besideSources

\* initAllowedLogSources: the lock is taken
ReinitLock ==
    /\ sources.init.pc = "lock"
    /\ lock_guard(sources.mAllowedLogSourcesMutex)
    /\ sources' = [sources EXCEPT !.mAllowedLogSourcesMutex = "init", !.init.pc = "clear"]
    /\ sev' = [sev EXCEPT !.kind = "initLock"]
    /\ UNCHANGED besideSources

\* initAllowedLogSources: mAllowedLogSources.clear()
ReinitClear ==
    /\ sources.init.pc = "clear"
    /\ sources' = [sources EXCEPT !.mAllowedLogSources = {}, !.init.pc = "uids"]
    /\ sev' = [sev EXCEPT !.kind = "initClear"]
    /\ UNCHANGED besideSources

\* initAllowedLogSources: the uids of the config are inserted
ReinitInsertUids ==
    /\ sources.init.pc = "uids"
    /\ sources' = [sources EXCEPT !.mAllowedLogSources = @ \cup mAllowedUid,
                                  !.init = [pc |-> "pkgs", left |-> mAllowedPkg]]
    /\ sev' = [sev EXCEPT !.kind = "initInsertUids"]
    /\ UNCHANGED besideSources

\* initAllowedLogSources: the uids of the next package are inserted
ReinitInsertPkg ==
    /\ sources.init.pc = "pkgs"
    /\ sources.init.left # <<>>
    /\ sources' = [sources EXCEPT
                      !.mAllowedLogSources = @ \cup sources.uidMap[Head(sources.init.left)],
                      !.init.left = Tail(@)]
    /\ sev' = [sev EXCEPT !.kind = "initInsertPkg"]
    /\ UNCHANGED besideSources

\* initAllowedLogSources returns and the lock is released
ReinitUnlock ==
    /\ sources.init.pc = "pkgs"
    /\ sources.init.left = <<>>
    /\ sources' = [sources EXCEPT
                      !.mAllowedLogSourcesMutex = IF @ = "init" THEN "free" ELSE @,
                      !.init.pc = "idle"]
    /\ sev' = [sev EXCEPT !.kind = "initUnlock",
                          !.previous = sev.complete,
                          !.complete = sources.mAllowedLogSources]
    /\ UNCHANGED besideSources

\* checkLogCredentials of an atom whose tag is not whitelisted: an atom of
\* a system service is let in without a look at the list.
CheckBegin(uid) ==
    /\ sources.check.pc = "idle"
    /\ IF uid = AID_ROOT \/ (uid >= AID_SYSTEM /\ uid < AID_SHELL)
       THEN /\ sources' = sources
            /\ sev' = [sev EXCEPT !.kind = "system", !.uid = uid, !.allowed = TRUE]
       ELSE /\ sources' = [sources EXCEPT !.check = [pc |-> "lock", uid |-> uid]]
            /\ sev' = [sev EXCEPT !.kind = "checkBegin"]
    /\ UNCHANGED besideSources

\* checkLogCredentials: the lock is taken
CheckLock ==
    /\ sources.check.pc = "lock"
    /\ lock_guard(sources.mAllowedLogSourcesMutex)
    /\ sources' = [sources EXCEPT !.mAllowedLogSourcesMutex = "check", !.check.pc = "find"]
    /\ sev' = [sev EXCEPT !.kind = "checkLock"]
    /\ UNCHANGED besideSources

\* checkLogCredentials: the uid is looked up, the answer returned and the
\* lock released
CheckFind ==
    /\ sources.check.pc = "find"
    /\ sources' = [sources EXCEPT
                      !.mAllowedLogSourcesMutex = IF @ = "check" THEN "free" ELSE @,
                      !.check.pc = "idle"]
    /\ sev' = [sev EXCEPT !.kind = "decided", !.uid = sources.check.uid,
                          !.allowed = sources.check.uid \in sources.mAllowedLogSources]
    /\ UNCHANGED besideSources

InitSources ==
    /\ ProducerIdle
    /\ AnomalyConstructed(SingleBucketAlert)
    /\ ManagerConstructed(TRUE)
    /\ OwnerConstructed({}, FALSE, TimeBase)
    /\ UpdatedConstructed(ValidConfig(1), TRUE)
    /\ NothingInstalled
    /\ SilosConstructed(1)
    /\ LaterConstructed
    /\ FurtherConstructed
    /\ \E uidMap \in [Range(mAllowedPkg) -> SUBSET AppUids] : SourcesConstructed(uidMap)

NextSources ==
    \/ \E pkg \in Range(mAllowedPkg), uids \in SUBSET AppUids : UidMapChanged(pkg, uids)
    \/ OnUidMapReceived
    \/ ReinitLock
    \/ ReinitClear
    \/ ReinitInsertUids
    \/ ReinitInsertPkg
    \/ ReinitUnlock
    \/ \E uid \in CheckedUids : CheckBegin(uid)
    \/ CheckLock
    \/ CheckFind

SpecSources == InitSources /\ [][NextSources]_vars

\* ------------------------------------------ two configurations, side by side
\* Each configuration's metric is handed starts and stops of every key, up
\* to KeysHorizon, with a limit of keys below the number of keys, and each
\* configuration is asked for reports.
besideSilos ==
    <<producerVars, anomalyTracker, aev, gAnomaly, manager, mev, owner, oev, updated, uev,
      lifecycle, lev, sources, sev, Later, further>>

\* onMatchedLogEventLocked of the metric of config c
SiloMatched(c, matcherIndex, d, t) ==
    LET p == silos.producers[c]
        q == flushIfNeededLocked(p, t)
        drop == matcherIndex = mStartIndex /\ hitGuardRailLocked(q, d).drop
    IN /\ IF matcherIndex = mStartIndex /\ d \in DOMAIN p.map
          THEN p.map[d].refcount < 1
          ELSE TRUE
       /\ silos' = [silos EXCEPT
                       !.producers[c] = handleMatchedLogEventValuesLocked(p, matcherIndex, d, t),
                       !.hardDimensionLimitReached =
                           IF drop
                           THEN noteHardDimensionLimitReached(@, silos.mMetricId[c])
                           ELSE @]
       /\ xev' = [xev EXCEPT !.kind = "matched", !.config = c, !.t = t,
                             !.dropped[c] = @ \/ drop, !.report = NoReport]
       /\ UNCHANGED besideSilos

\* onDumpReportLocked of the metric of config c
SiloDump(c, t, erase_data) ==
    LET p == silos.producers[c]
    IN /\ silos' = [silos EXCEPT !.producers[c] = onDumpReportLocked(p, t, FALSE, erase_data)]
       /\ xev' = [xev EXCEPT
                     !.kind = "dump", !.config = c, !.t = t,
                     !.report =
                         WrittenReport(
                             onDumpReportLocked(p, t, FALSE, FALSE),
                             hasHitDimensionGuardrailOf(silos.hardDimensionLimitReached,
                                                        silos.mMetricId[c]),
                             FALSE)]
       /\ UNCHANGED besideSilos

InitSilos ==
    /\ mAggregationType = SUM
    /\ mNested = TRUE
    /\ mDimensionHardLimit = NumDims - 1
    /\ mCondition = kTrue
    /\ mIsActive = TRUE
    /\ ConstructedProducer(TimeBase)
    /\ AnomalyConstructed(SingleBucketAlert)
    /\ ManagerConstructed(TRUE)
    /\ OwnerConstructed({}, FALSE, TimeBase)
    /\ UpdatedConstructed(ValidConfig(1), TRUE)
    /\ NothingInstalled
    /\ SourcesConstructed(NoAppUids)
    /\ \E idOfB \in 1..2 : SilosConstructed(idOfB)
    /\ LaterConstructed
    /\ FurtherConstructed

NextSilos ==
    \/ \E c \in ConfigKeys, m \in {mStartIndex, mStopIndex}, d \in Dims,
          t \in xev.t..KeysHorizon : SiloMatched(c, m, d, t)
    \/ \E c \in ConfigKeys, t \in xev.t..KeysHorizon, erase \in BOOLEAN : SiloDump(c, t, erase)

SpecSilos == InitSilos /\ [][NextSilos]_vars

\* ------------------------------------------------- keys of a count metric
\* A count metric sliced by the uid of the first, the last or the second
\* node of the attribution chain is handed two atoms with chains of up to
\* MaxChain nodes.
besideKeyed ==
    <<producerVars, anomalyTracker, aev, gAnomaly, manager, mev, owner, oev, updated, uev,
      lifecycle, lev, sources, sev, silos, xev, sampled, zev, gauge, gev,
      further>>

CountMatched(chain) ==
    LET whatKey == filterValues(keyed.mDimensionsInWhat, ValuesOf(chain))
    IN /\ Len(kev.chains) < 2
       /\ keyed' = [keyed EXCEPT
                       !.mCurrentSlicedCounter =
                           IF whatKey = <<>> THEN @ ELSE countMatched(@, whatKey)]
       /\ kev' = [chains |-> Append(kev.chains, chain), keys |-> Append(kev.keys, whatKey)]
       /\ UNCHANGED besideKeyed

InitKeyed ==
    /\ ProducerIdle
    /\ AnomalyConstructed(SingleBucketAlert)
    /\ ManagerConstructed(TRUE)
    /\ OwnerConstructed({}, FALSE, TimeBase)
    /\ UpdatedConstructed(ValidConfig(1), TRUE)
    /\ NothingInstalled
    /\ SourcesConstructed(NoAppUids)
    /\ SilosConstructed(1)
    /\ FurtherConstructed
    /\ SampledConstructed(1, 0)
    /\ GaugeConstructed(FIRST_N_SAMPLES)
    /\ \E position \in Positions : KeyedConstructed(position)

NextKeyed == \E chain \in AttributionChains : CountMatched(chain)

SpecKeyed == InitKeyed /\ [][NextKeyed]_vars

\* ----------------------------------------------- a metric with sampling
\* A duration metric with a limit of keys below the number of keys and a
\* shard count of 1..MaxShardCount is handed starts, stops and stop-alls of
\* every key up to KeysHorizon, and asked for reports.
besideSampled ==
    <<producerVars, anomalyTracker, aev, gAnomaly, manager, mev, owner, oev, updated, uev,
      lifecycle, lev, sources, sev, silos, xev, keyed, kev, gauge, gev,
      further>>

SampledMatched(matcherIndex, d, t) ==
    LET q == flushIfNeededLocked(sampled.p, t)
        p == handleSampledLogEventValuesLocked(sampled, matcherIndex, d, t)
    IN /\ IF matcherIndex = mStartIndex /\ d \in DOMAIN sampled.p.map
          THEN sampled.p.map[d].refcount < 1
          ELSE TRUE
       /\ sampled' = [sampled EXCEPT
                         !.p = p,
                         !.hardDimensionLimitReached = @ \/ (p.hit /\ ~q.hit)]
       /\ zev' = [zev EXCEPT !.kind = "matched", !.matcherIndex = matcherIndex, !.dim = d,
                             !.t = t]
       /\ UNCHANGED besideSampled

SampledDump(t, erase_data) ==
    LET q == onDumpReportLocked(sampled.p, t, FALSE, FALSE)
    IN /\ sampled' = [sampled EXCEPT !.p = onDumpReportLocked(sampled.p, t, FALSE, erase_data)]
       /\ zev' = [zev EXCEPT !.kind = "dump", !.t = t, !.reported = DOMAIN q.past]
       /\ UNCHANGED besideSampled

InitSampled ==
    /\ mAggregationType = SUM
    /\ mNested = TRUE
    /\ mDimensionHardLimit = NumDims - 1
    /\ mCondition = kTrue
    /\ mIsActive = TRUE
    /\ ConstructedProducer(TimeBase)
    /\ AnomalyConstructed(SingleBucketAlert)
    /\ ManagerConstructed(TRUE)
    /\ OwnerConstructed({}, FALSE, TimeBase)
    /\ UpdatedConstructed(ValidConfig(1), TRUE)
    /\ NothingInstalled
    /\ SourcesConstructed(NoAppUids)
    /\ SilosConstructed(1)
    /\ FurtherConstructed
    /\ KeyedConstructed("LAST")
    /\ GaugeConstructed(FIRST_N_SAMPLES)
    /\ \E shardCount \in 1..MaxShardCount, shardOffset \in 0..MaxShardOffset :
           SampledConstructed(shardCount, shardOffset)

NextSampled ==
    \/ \E m \in {mStartIndex, mStopIndex, mStopAllIndex}, d \in Dims, t \in zev.t..KeysHorizon :
           SampledMatched(m, d, t)
    \/ \E t \in zev.t..KeysHorizon, erase \in BOOLEAN : SampledDump(t, erase)

SpecSampled == InitSampled /\ [][NextSampled]_vars

\* ------------------------------------------- a pushed gauge, three buckets
\* SpecGauge: the app of one dimension moves to the background and to the
\* foreground and starts activities, at the starts of GaugeBuckets buckets,
\* at most MaxGaugeAtoms starts in a bucket; the report is asked for at the
\* end of the last bucket.
\* SpecGaugeSliced: the apps of all dimensions do so over SlicedBuckets
\* buckets, the first at most SlicedAtoms times in a bucket and the others
\* once; reports are asked for at every bucket boundary.
besideGauge ==
    <<producerVars, anomalyTracker, aev, gAnomaly, manager, mev, owner, oev, updated, uev,
      lifecycle, lev, sources, sev, silos, xev, keyed, kev, sampled, zev,
      further>>

GaugeTimes == {TimeBase + b * BucketSize : b \in 0..(GaugeBuckets - 1)}

\* the starts seen of each dimension in the bucket of t
SeenAt(t) == IF BucketStartOf(t) = BucketStartOf(gev.now) THEN gev.seen ELSE [d \in Dims |-> 0]

\* the isInBackground predicate of uid d turns true or false
MoveTo(d, background, t) ==
    /\ t \in GaugeTimes
    /\ t >= gev.now
    /\ gauge.cond[d] # background
    /\ gauge' = [gauge EXCEPT !.cond[d] = background]
    /\ gev' = [gev EXCEPT !.kind = "condition", !.now = t, !.seen = SeenAt(t)]
    /\ UNCHANGED besideGauge

\* an AppStartOccurred atom of uid d
AppStartOccurred(d, t, most) ==
    LET k == SeenAt(t)[d] + 1
        atom == [mElapsedTimestampNs |-> t, serial |-> k]
    IN /\ t \in GaugeTimes
       /\ t >= gev.now
       /\ k <= most
       /\ gauge' = gaugeOnMatchedLogEventLocked(gauge, d, atom, t)
       /\ gev' = [gev EXCEPT
                     !.kind = "atom", !.now = t,
                     !.seen = [SeenAt(t) EXCEPT ![d] = k],
                     !.true[d] = IF gauge.cond[d] THEN @ \cup {atom} ELSE @,
                     !.lone = @ \/ (~gauge.cond[d] /\ \E e \in Dims : gauge.cond[e])]
       /\ UNCHANGED besideGauge

GaugeDump(t) ==
    /\ t \in GaugeTimes \cup {GaugeHorizon}
    /\ t >= gev.now
    /\ gauge' = gaugeOnDumpReportLocked(gauge, t, TRUE)
    /\ gev' = [gev EXCEPT
                  !.kind = "dump", !.now = t, !.seen = SeenAt(t),
                  !.dumps = IF @ < 2 THEN @ + 1 ELSE @,
                  !.report = gaugeOnDumpReportLocked(gauge, t, FALSE).mPastBuckets]
    /\ UNCHANGED besideGauge

InitGauge ==
    /\ ProducerIdle
    /\ AnomalyConstructed(SingleBucketAlert)
    /\ ManagerConstructed(TRUE)
    /\ OwnerConstructed({}, FALSE, TimeBase)
    /\ UpdatedConstructed(ValidConfig(1), TRUE)
    /\ NothingInstalled
    /\ SourcesConstructed(NoAppUids)
    /\ SilosConstructed(1)
    /\ FurtherConstructed
    /\ KeyedConstructed("LAST")
    /\ SampledConstructed(1, 0)
    /\ \E samplingType \in {FIRST_N_SAMPLES, RANDOM_ONE_SAMPLE} : GaugeConstructed(samplingType)

NextGauge ==
    \/ \E background \in BOOLEAN, t \in GaugeTimes : MoveTo(1, background, t)
    \/ \E t \in GaugeTimes : AppStartOccurred(1, t, MaxGaugeAtoms)
    \/ GaugeDump(GaugeHorizon)

SpecGauge == InitGauge /\ [][NextGauge]_vars

SlicedBuckets == 2
SlicedAtoms == 2
SlicedTimes == {TimeBase + b * BucketSize : b \in 0..(SlicedBuckets - 1)}

NextGaugeSliced ==
    \/ \E d \in Dims, background \in BOOLEAN, t \in SlicedTimes : MoveTo(d, background, t)
    \/ \E d \in Dims, t \in SlicedTimes :
           AppStartOccurred(d, t, IF d = 1 THEN SlicedAtoms ELSE 1)
    \/ \E t \in SlicedTimes \cup {TimeBase + SlicedBuckets * BucketSize} : GaugeDump(t)

SpecGaugeSliced == InitGauge /\ [][NextGaugeSliced]_vars

\* ------------------------------------------------ the later components
\* What the operations of the components below leave alone, and the state
\* they start from.
Settled ==
    <<producerVars, anomalyTracker, aev, gAnomaly, manager, mev, owner, oev, updated, uev,
      lifecycle, lev, sources, sev, silos, xev, Later>>

InitFurther(components) ==
    /\ ProducerIdle
    /\ AnomalyConstructed(SingleBucketAlert)
    /\ ManagerConstructed(TRUE)
    /\ OthersConstructed
    /\ further = components

\* --------------------------------------------- memory limits of a config
\* A manager is updated with configs whose two memory fields are absent or
\* hold any of MemoryKb, by a build of either treatment of the overflow.
UpdateLimits(config, overflow) ==
    /\ further' = [further EXCEPT
                      !.limits = [LimitsFrom(config, overflow) EXCEPT
                                     !.updates = Min(further.limits.updates + 1, 2)]]
    /\ UNCHANGED Settled

NextLimits == \E config \in MemoryConfigs, overflow \in {"wraps", "exact"} :
                  UpdateLimits(config, overflow)

SpecLimits == InitFurther(FurtherDefault) /\ [][NextLimits]_vars

\* ------------------------------------------------ a pulled gauge, driven
\* A gauge metric, pulled or pushed, of any sampling type, whose condition
\* and activation change, whose pull alarm fires, and which is told of app
\* upgrades and of the completion of statsd's init, up to MaxTime.
Pulled(g, t) ==
    /\ further' = [further EXCEPT !.pulled = [g EXCEPT !.now = t]]
    /\ UNCHANGED Settled

NotifyAppUpgrade(t) == Pulled(notifyAppUpgradeInternalLocked(further.pulled, t), t)

OnStatsdInitCompleted(t) == Pulled(onStatsdInitCompleted(further.pulled, t), t)

PulledConditionChanged(conditionMet, t) ==
    /\ further.pulled.mCondition # (IF conditionMet THEN kTrue ELSE kFalse)
    /\ Pulled(pulledOnConditionChangedLocked(further.pulled, conditionMet, t), t)

PulledActiveStateChanged(isActive, t) ==
    /\ further.pulled.mIsActive # isActive
    /\ Pulled(pulledOnActiveStateChangedLocked(further.pulled, isActive, t), t)

\* the pull alarm: the puller manager asks isPullNeeded before it pulls
PullAlarm(t) ==
    /\ further.pulled.mIsPulled
    /\ isPullNeeded(further.pulled)
    /\ Pulled([further.pulled EXCEPT
                  !.call = [by |-> "alarm", t |-> t, mIsActive |-> further.pulled.mIsActive,
                            mCondition |-> further.pulled.mCondition]], t)

InitPulled ==
    \E isPulled \in BOOLEAN, samplingType \in SamplingTypes,
       condition \in {kUnknown, kFalse, kTrue} :
        InitFurther([FurtherDefault EXCEPT
                        !.pulled = PulledConstructed(isPulled, samplingType, condition)])

NextPulled ==
    \/ \E t \in further.pulled.now..MaxTime : NotifyAppUpgrade(t)
    \/ \E t \in further.pulled.now..MaxTime : OnStatsdInitCompleted(t)
    \/ \E c \in BOOLEAN, t \in further.pulled.now..MaxTime : PulledConditionChanged(c, t)
    \/ \E a \in BOOLEAN, t \in further.pulled.now..MaxTime : PulledActiveStateChanged(a, t)
    \/ \E t \in further.pulled.now..MaxTime : PullAlarm(t)

SpecPulled == InitPulled /\ [][NextPulled]_vars

\* ------------------------------------- a metric activated and deactivated
\* A duration metric with an unsliced condition whose activation changes
\* among the events of one key, with its condition timer; or, when the
\* metric has no bucket, the bucket of that metric alone as events arrive.
besideActive ==
    <<mAggregationType, mNested, mDimensionHardLimit, gAllStarts, gAccStarts, gCur, gPast,
      gRun, gBest, gExp, gPartials, hardDimensionLimitReached, report, gDropPending,
      anomalyTracker, aev, gAnomaly, manager, mev, owner, oev, updated, uev,
      lifecycle, lev, sources, sev, silos, xev, Later>>

\* How far an event at t is ahead of the current bucket of an active metric.
Ahead(t) ==
    IF t < getCurrentBucketEndTimeNs(Self) THEN "same"
    ELSE IF t < getCurrentBucketEndTimeNs(Self) + BucketSize THEN "next"
    ELSE "ahead"

ActiveInstall(p, timer, kind, d, t, res) ==
    /\ further.unbucketed.has_bucket
    /\ mCurrentBucketStartTimeNs' = p.start
    /\ mCurrentBucketNum' = p.num
    /\ mCurrentSlicedDurationTrackerMap' = p.map
    /\ mPastBuckets' = p.past
    /\ mHasHitGuardrail' = p.hit
    /\ now' = t
    /\ ev' = [kind |-> kind, dim |-> d, atEnd |-> t = getCurrentBucketEndTimeNs(Self),
              res |-> res]
    /\ further' = [further EXCEPT !.mConditionTimer = timer]
    /\ UNCHANGED besideActive

\* onMatchedLogEventLocked of a metric that may be inactive
ActiveMatched(matcherIndex, d, t) ==
    /\ IF matcherIndex = mStartIndex /\ d \in DOMAIN mCurrentSlicedDurationTrackerMap
       THEN mCurrentSlicedDurationTrackerMap[d].refcount < MaxRefs
       ELSE TRUE
    /\ ActiveInstall(handleMatchedLogEventValuesLocked(Self, matcherIndex, d, t),
                     IF mIsActive
                     THEN timerFlushIfNeededLocked(further.mConditionTimer, Self, t)
                     ELSE further.mConditionTimer,
                     matcherIndex, d, t, IF mIsActive THEN Ahead(t) ELSE "inactive")
    /\ UNCHANGED <<mCondition, mIsActive>>

\* onConditionChangedLocked of a metric that may be inactive
ActiveConditionChanged(conditionMet, t) ==
    /\ mCondition # (IF conditionMet THEN kTrue ELSE kFalse)
    /\ mCondition' = IF conditionMet THEN kTrue ELSE kFalse
    /\ ActiveInstall(onConditionChangedLocked(Self, conditionMet, t),
                     timerOnConditionChangedLocked(further.mConditionTimer, Self,
                                                   conditionMet, t),
                     "condition", 0, t, IF mIsActive THEN Ahead(t) ELSE "inactive")
    /\ UNCHANGED mIsActive

\* The activation state of the metric changes: the base class records it and
\* DurationMetricProducer::onActiveStateChangedLocked tells the trackers
ActiveStateChanged(isActive, t) ==
    /\ mIsActive # isActive
    /\ mIsActive' = isActive
    /\ ActiveInstall(onActiveStateChangedLocked(Self, isActive, t),
                     timerOnActiveStateChangedLocked(further.mConditionTimer, Self,
                                                     isActive, t),
                     IF isActive THEN "activated" ELSE "deactivated", 0, t,
                     IF mCondition = kTrue THEN Ahead(t) ELSE "untold")
    /\ UNCHANGED mCondition

\* onDumpReportLocked that closes the partial bucket and erases the data
ActiveDump(t) ==
    /\ ActiveInstall(onDumpReportLocked(Self, t, TRUE, TRUE),
                     timerNewBucketStart(
                         timerFlushIfNeededLocked(further.mConditionTimer, Self, t), t, t),
                     "dump", 0, t, Ahead(t))
    /\ UNCHANGED <<mCondition, mIsActive>>

\* An event of a metric without a bucket: what it does to the bucket
UnbucketedEvent(t) ==
    /\ ~further.unbucketed.has_bucket
    /\ ~further.unbucketed.aborted
    /\ further.unbucketed.mCurrentBucketNum < MaxBucketNum
    /\ further' = [further EXCEPT
                      !.unbucketed = [unbucketedFlushIfNeededLocked(@, t) EXCEPT !.now = t]]
    /\ UNCHANGED Settled

InitActive ==
    \/ /\ mAggregationType \in {SUM, MAX_SPARSE}
       /\ mNested \in BOOLEAN
       /\ mDimensionHardLimit = NumDims
       /\ mCondition \in {kUnknown, kFalse, kTrue}
       /\ mIsActive \in BOOLEAN
       /\ \E startTimeNs \in {TimeBase, TimeBase + 1} :
              /\ ConstructedProducer(startTimeNs)
              /\ further = [FurtherDefault EXCEPT
                               !.mConditionTimer =
                                   timerConstructed(mIsActive, mCondition, startTimeNs)]
       /\ AnomalyConstructed(SingleBucketAlert)
       /\ ManagerConstructed(TRUE)
       /\ OthersConstructed
    \/ \E timeBaseNs \in {0, 1}, ahead \in {0, 1}, overflow \in {"wraps", "traps"} :
           InitFurther([FurtherDefault EXCEPT
                           !.unbucketed = UnbucketedConstructed(FALSE, timeBaseNs,
                                                                timeBaseNs + ahead, overflow)])

NextActive ==
    \/ \E m \in {mStartIndex, mStopIndex, mStopAllIndex}, t \in now..MaxTime :
           ActiveMatched(m, 1, t)
    \/ \E c \in BOOLEAN, t \in now..MaxTime : ActiveConditionChanged(c, t)
    \/ \E a \in BOOLEAN, t \in now..MaxTime : ActiveStateChanged(a, t)
    \/ \E t \in now..MaxTime : ActiveDump(t)
    \/ \E t \in further.unbucketed.now..MaxTime : UnbucketedEvent(t)

SpecActive == InitActive /\ [][NextActive]_vars

\* ------------------------------------ the active status of a manager
\* A manager of either config is handed atoms in the order of their
\* timestamps, is loaded with saved active configs of metrics 1 and 3 and is
\* updated to either config with all or none of its producers preserved.
SavedMetrics == [id : {1, 3}, remaining_ttl_nanos : 0..1]

ActiveConfigs ==
    {<<>>} \cup {<<a>> : a \in SavedMetrics} \cup {<<a, b>> : a, b \in SavedMetrics}

\* The metrics whose producers an update to the config of that name may keep.
Preservable(name) ==
    {metricIndex \in Metrics :
        further.activated.producers[metricIndex].hasActivation
            = (metricIndex \in Range(ActivationConfigs[name].mMetricIndexesWithActivation))}

\* Atoms from root and from the shell, which is not an allowed source.
ActivatedEvents ==
    [tag : Tags, uid : {AID_ROOT, AID_SHELL}, field : 0..1, headerOnly : BOOLEAN,
     t : 0..MaxEventTime]

Activated(mgr) ==
    /\ further' = [further EXCEPT !.activated = mgr]
    /\ UNCHANGED Settled

ActivatedLogEvent(event) ==
    /\ event.t >= further.activated.last.t
    /\ Activated(activatedOnLogEvent(further.activated, event))

LoadActiveConfig(config, currentTimeNs) ==
    Activated(loadActiveConfig(further.activated, config, currentTimeNs))

ActivatedUpdateConfig(name, preserved, currentTimeNs) ==
    Activated(activatedUpdateConfig(further.activated, name, preserved, currentTimeNs))

InitActivated ==
    \E name \in {"all", "some"}, valid \in BOOLEAN :
        InitFurther([FurtherDefault EXCEPT !.activated = ActivatedConstructed(name, valid)])

NextActivated ==
    \/ \E event \in ActivatedEvents : ActivatedLogEvent(event)
    \/ \E config \in ActiveConfigs, t \in further.activated.last.t..MaxEventTime :
           LoadActiveConfig(config, t)
    \/ \E name \in {"all", "some"}, t \in further.activated.last.t..MaxEventTime :
           \E preserved \in {{}, Preservable(name)} :
               ActivatedUpdateConfig(name, preserved, t)

SpecActivated == InitActivated /\ [][NextActivated]_vars

\* ------------------------------------------- a manager loading metadata
\* The manager is handed metadata of up to two alerts and two metrics with
\* ids that its config holds or not, until the process ends.
IdLists == {<<>>} \cup {<<a>> : a \in MetadataIds} \cup {<<a, b>> : a, b \in MetadataIds}

StatsMetadata == [alert_metadata : IdLists, metric_metadata : IdLists]

LoadMetadata(metadata, end) ==
    /\ ~further.loaded.crashed
    /\ further' = [further EXCEPT !.loaded = loadMetadata(@, metadata, end)]
    /\ UNCHANGED Settled

NextMetadata == \E metadata \in StatsMetadata, end \in EndOutcomes : LoadMetadata(metadata, end)

SpecMetadata == InitFurther(FurtherDefault) /\ [][NextMetadata]_vars

\* ------------------------------------------- duration alarms at work
\* Alarms are started for a later second, stopped and cancelled as time
\* goes by up to LastAlarmSec; the alarm monitor pops the alarms that are due and
\* the manager is told of them in a later step.
Alarms(al, t) ==
    /\ further' = [further EXCEPT !.alarms = [al EXCEPT !.now = t]]
    /\ UNCHANGED Settled

AlarmStart(k, timestampSec) ==
    /\ further.alarms.made < MaxAlarms
    /\ Alarms(startAlarm(further.alarms, k, timestampSec), further.alarms.now)

AlarmStop(k, t) ==
    /\ further.alarms.mAlarms[k] # 0
    /\ Alarms(stopAlarm(further.alarms, k, t), t)

AlarmCancelAll(tracker) ==
    /\ \E k \in AlarmKeys : k[1] = tracker /\ further.alarms.mAlarms[k] # 0
    /\ Alarms(trackerCancelAllAlarms(further.alarms, tracker), further.alarms.now)

\* The alarm monitor pops the alarms due at t
MonitorFires(t) ==
    LET due == {a \in further.alarms.monitor : further.alarms.timestampSec[a] <= t}
    IN /\ due # {}
       /\ further.alarms.firedAlarms = {}
       /\ Alarms([further.alarms EXCEPT !.monitor = @ \ due,
                                    !.firedAlarms = due,
                                    !.popped = @ \cup due], t)

\* StatsLogProcessor hands the popped alarms to the manager
AlarmsDelivered ==
    /\ further.alarms.firedAlarms # {}
    /\ Alarms(onAnomalyAlarmFired(further.alarms, further.alarms.now), further.alarms.now)

NextAlarms ==
    \/ \E k \in AlarmKeys, timestampSec \in (further.alarms.now + 1)..LastAlarmSec :
           AlarmStart(k, timestampSec)
    \/ \E k \in AlarmKeys, t \in further.alarms.now..LastAlarmSec : AlarmStop(k, t)
    \/ \E tracker \in AlarmTrackers : AlarmCancelAll(tracker)
    \/ \E t \in further.alarms.now..LastAlarmSec : MonitorFires(t)
    \/ AlarmsDelivered

SpecAlarms == InitFurther(FurtherDefault) /\ [][NextAlarms]_vars

\* The alarm monitor pops an alarm that is due, and the alarms popped are
\* delivered.
SpecAlarmsFair ==
    /\ SpecAlarms
    /\ WF_vars(\E t \in further.alarms.now..LastAlarmSec : MonitorFires(t))
    /\ WF_vars(AlarmsDelivered)

\* --------------------------------------- sliced conditions at work
\* Events move the unsliced part, the sliced dimensions or both; durations
\* start and stop for the what keys.
Sliced(s) ==
    /\ further' = [further EXCEPT !.sliced = s]
    /\ UNCHANGED Settled

SlicedConditionMayChange(unsliced, changedToTrue, changedToFalse) ==
    LET s == further.sliced
    IN /\ s.IsSimpleCondition => unsliced = s.unsliced
       /\ \A d \in changedToTrue : s.slicedDimensionMap[d] = 0
       /\ \A d \in changedToFalse : s.slicedDimensionMap[d] > 0
       /\ unsliced # s.unsliced \/ changedToTrue \cup changedToFalse # {}
       /\ Sliced(onSlicedConditionMayChangeLocked(
                     ConditionsEvaluated(s, unsliced, changedToTrue, changedToFalse)))

SlicedStart(w) ==
    /\ w \notin DOMAIN further.sliced.requeried
    /\ Sliced(slicedStart(further.sliced, w))

SlicedStop(w) ==
    /\ w \in DOMAIN further.sliced.requeried
    /\ Sliced([further.sliced EXCEPT
                  !.mCurrentSlicedDurationTrackerMap =
                      [v \in DOMAIN @ \ {w} |-> @[v]],
                  !.requeried = [v \in DOMAIN @ \ {w} |-> @[v]]])

InitSliced ==
    \E simple \in BOOLEAN :
        InitFurther([FurtherDefault EXCEPT !.sliced = SlicedConstructed(simple)])

NextSliced ==
    \/ \E unsliced \in {kUnknown, kFalse, kTrue},
          changedToTrue \in SUBSET ConditionDimensions,
          changedToFalse \in SUBSET ConditionDimensions :
           SlicedConditionMayChange(unsliced, changedToTrue, changedToFalse)
    \/ \E w \in WhatKeys : SlicedStart(w)
    \/ \E w \in WhatKeys : SlicedStop(w)

SpecSliced == InitSliced /\ [][NextSliced]_vars

\* --------------------------------------------------------------- claims
\* The past buckets of key d.
PastOf(d) == IF d \in DOMAIN mPastBuckets THEN mPastBuckets[d] ELSE <<>>

\* The outstanding starts the tracker of key d holds.
Refcount(d) ==
    IF d \in DOMAIN mCurrentSlicedDurationTrackerMap
    THEN mCurrentSlicedDurationTrackerMap[d].refcount
    ELSE 0

RECURSIVE SumOver(_, _)
SumOver(f, S) ==
    IF S = {} THEN 0
    ELSE LET d == CHOOSE x \in S : TRUE IN f[d] + SumOver(f, S \ {d})

\* An event that is a matched start, stop or stop-all not earlier than the
\* time base.
Matched == ev.kind \in {"start", "stop", "stopAll"} /\ ev.res # "stale"

\* C1 (as amended): under SUM, the durations of the past buckets of a key
\* add up to the time the key was live inside [time base, current bucket
\* start] since the past buckets were last cleared, and no bucket is
\* credited more than its own length.
C1_SumLiveTime ==
    mAggregationType = SUM =>
        \A d \in Dims :
            /\ SumDurations(PastOf(d)) = gPast[d]
            /\ \A i \in 1..Len(PastOf(d)) :
                   PastOf(d)[i].mDuration <= PastOf(d)[i].mBucketEndNs - PastOf(d)[i].mBucketStartNs

\* C1 as stated: whatever the aggregation type, the durations of the past
\* buckets of a key add up to the time the key was live.
C1_AnyLiveTime == \A d \in Dims : SumDurations(PastOf(d)) = gPast[d]

\* C1: a SUM run that is still running after it has been split over two
\* closed buckets.
C1_Witness ==
    /\ mAggregationType = SUM
    /\ Len(PastOf(1)) >= 2
    /\ 1 \in DOMAIN mCurrentSlicedDurationTrackerMap
    /\ mCurrentSlicedDurationTrackerMap[1].state = "running"
    /\ gPast[1] > BucketSize

\* The tracker of a tracked key.
TrackerOf(d) == mCurrentSlicedDurationTrackerMap[d]

Tracked == DOMAIN mCurrentSlicedDurationTrackerMap

\* C2: under SUM every past bucket of a key holds the wall time inside the
\* bucket during which the key had at least one start live while the
\* condition was true, however many starts overlapped, and so does the
\* duration the tracker holds for the current bucket.
C2_SumNoDoubleCount ==
    mAggregationType = SUM =>
        \A d \in Dims :
            /\ PastOf(d) = gExp[d]
            /\ d \in Tracked => TrackerOf(d).mDuration + Accrued(TrackerOf(d), now) = gCur[d]
            /\ d \notin Tracked => gCur[d] = 0

\* C2: two overlapping starts of a key are live under SUM after a bucket
\* that holds live time of the key has been closed.
C2_Witness ==
    /\ mAggregationType = SUM
    /\ mNested
    /\ Refcount(1) = 2
    /\ TrackerOf(1).state = "running"
    /\ PastOf(1) # <<>>
    /\ gCur[1] > 0

C4_AcceptedStarts == \A d \in Dims : Refcount(d) = gAccStarts[d]

\* C4 as stated: the refcounts add up to the number of start events not yet
\* matched by a stop or cleared by a stop-all.
C4_AllStarts == SumOver([d \in Dims |-> Refcount(d)], Dims) = SumOver(gAllStarts, Dims)

\* C4: a key holds two starts while a start of another key was dropped.
C4_Witness ==
    /\ \E d \in Dims : Refcount(d) = 2
    /\ \E d \in Dims : gAllStarts[d] > gAccStarts[d]

\* C5: right after a stop-all no tracker has a start outstanding, every
\* tracker that is left has accumulated duration, and whenever its bucket
\* is closed later it reports just that duration.
C5_StopAllEndsAll ==
    (ev.kind = "stopAll" /\ ev.res # "stale") =>
        \A d \in Tracked :
            /\ TrackerOf(d).state = "idle"
            /\ TrackerOf(d).refcount = 0
            /\ TrackerOf(d).mDuration > 0
            /\ \A u \in now..(MaxTime + BucketSize) :
                   SumDurations(flushCurrentBucket(TrackerOf(d), u).out)
                       = TrackerOf(d).mDuration

\* C5: a stop-all has removed a key and left another with its duration.
C5_Witness ==
    /\ ev.kind = "stopAll"
    /\ ev.res = "removed"
    /\ Tracked # {}

\* C6: no past bucket ends after the start of the current bucket.
C6_PastBeforeCurrent ==
    \A d \in DOMAIN mPastBuckets :
        \A i \in 1..Len(mPastBuckets[d]) :
            mPastBuckets[d][i].mBucketEndNs <= mCurrentBucketStartTimeNs

\* C6: a dump has closed a partial bucket, which ends where the current
\* bucket starts, off the bucket boundaries.
C6_Witness ==
    /\ ev.kind = "dump"
    /\ (mCurrentBucketStartTimeNs - TimeBase) % BucketSize # 0
    /\ \E d \in DOMAIN mPastBuckets :
           mPastBuckets[d][Len(mPastBuckets[d])].mBucketEndNs = mCurrentBucketStartTimeNs

C8_StaleDiscarded ==
    \A m \in {mStartIndex, mStopIndex, mStopAllIndex}, d \in Dims, t \in StaleTimes :
        handleMatchedLogEventValuesLocked(Self, m, d, t) = Self

\* C8: an event earlier than the time base has arrived while a start was
\* outstanding and a past bucket was retained.
C8_Witness ==
    /\ ev.res = "stale"
    /\ Refcount(1) > 0
    /\ PastOf(1) # <<>>

\* C9: no past bucket has a duration of zero, and right after a start that
\* created the tracker of its key and a stop of the key at the same
\* timestamp the key is no longer tracked.
C9_ZeroDuration ==
    /\ \A d \in DOMAIN mPastBuckets :
           \A i \in 1..Len(mPastBuckets[d]) : mPastBuckets[d][i].mDuration > 0
    /\ \A d \in Tracked : hasAccumulatedDuration(TrackerOf(d))
    /\ ev.res = "zero" => ev.dim \notin Tracked

\* C9: a start and a stop of a key at the same timestamp.
C9_Witness == ev.res = "zero" /\ gAccStarts[ev.dim] = 0

\* C10: the keys tracked never number more than the hard limit; a start of
\* a key that is not tracked is dropped only at the limit and creates
\* nothing, and a start of a tracked key is counted.
C10_HardLimit ==
    /\ Cardinality(Tracked) <= mDimensionHardLimit
    /\ (ev.kind = "start" /\ ev.res = "dropped") =>
           /\ ev.dim \notin Tracked
           /\ Cardinality(Tracked) = mDimensionHardLimit
           /\ mHasHitGuardrail
    /\ (ev.kind = "start" /\ ev.res = "counted") =>
           /\ ev.dim \in Tracked
           /\ TrackerOf(ev.dim).refcount >= 1
    /\ (ev.kind = "start" /\ ev.res = "created") =>
           /\ ev.dim \in Tracked
           /\ TrackerOf(ev.dim).refcount = 1

\* C10: a start of a new key has been dropped at the limit.
C10_Witness ==
    /\ ev.kind = "start"
    /\ ev.res = "dropped"
    /\ Cardinality(Tracked) = mDimensionHardLimit

\* C11 as stated: a report dumped after a start was dropped at the hard
\* limit, with no other dump in between, carries the guardrail flag.
C11_NextReportFlagged == (report.dumped /\ report.afterDrop) => report.guardrailHit

\* C11: the first report dumped after a dropped start has no past bucket to
\* carry and is written without the guardrail flag.
C11_Witness ==
    /\ report.dumped
    /\ report.afterDrop
    /\ ~report.data
    /\ ~report.guardrailHit
    /\ hardDimensionLimitReached

\* The sum of key's values over the ring slots in idxs.
RECURSIVE SumSlots(_, _, _)
SumSlots(ring, idxs, key) ==
    IF idxs = {} THEN 0
    ELSE LET i == CHOOSE x \in idxs : TRUE
         IN ValueIn(ring[i], key) + SumSlots(ring, idxs \ {i}, key)

StoredSum(key) ==
    SumSlots(anomalyTracker.mPastBuckets, DOMAIN anomalyTracker.mPastBuckets, key)

\* C12: between any two operations of the tracker, the cached sum of every
\* key equals the sum of the key's values over the buckets stored in the ring.
C12_CachedSum ==
    \A key \in Dims : getSumOverPastBuckets(anomalyTracker, key) = StoredSum(key)

\* C12: the value of a key in a stored bucket was replaced while another
\* stored bucket holds a value of the same key.
C12_Witness ==
    /\ aev.kind = "addPastBucketValue"
    /\ aev.from = anomalyTracker.mMostRecentBucketNum
    /\ aev.num = aev.from - 1
    /\ anomalyTracker.mNumOfPastBuckets = 2
    /\ \E key \in Dims :
           /\ \A i \in 0..1 : key \in DOMAIN anomalyTracker.mPastBuckets[i]
           /\ getSumOverPastBuckets(anomalyTracker, key) = 2 * MaxValue

\* The sum of key's values over the buckets in bs of the window told of.
RECURSIVE SumTold(_, _, _)
SumTold(window, bs, key) ==
    IF bs = {} THEN 0
    ELSE LET b == CHOOSE x \in bs : TRUE
         IN ValueIn(window[b], key) + SumTold(window, bs \ {b}, key)

PastSum(key) == SumTold(gAnomaly.window, DOMAIN gAnomaly.window, key)

Breached == PastSum(aev.key) + aev.value > anomalyTracker.mAlert.trigger_if_sum_gt

Detected == aev.kind = "detectAndDeclareAnomaly"

\* C13: detectAndDeclareAnomaly declares an anomaly for a key exactly when the
\* key's past buckets plus the current value exceed the threshold strictly
\* and the call is not before the key's refractory end; when it declares, it
\* informs every subscription, and otherwise it informs none and leaves the
\* refractory end as it was.
C13_DeclaresExactly ==
    /\ [](Detected /\ ~aev.declared =>
             /\ ~(Breached /\ aev.t >= getRefractoryPeriodEndsSec(anomalyTracker, aev.key))
             /\ aev.informed = 0)
    /\ [](Detected /\ aev.declared =>
             Breached /\ aev.informed = anomalyTracker.mSubscriptions)
    /\ [][Detected' =>
             /\ aev'.declared =>
                    aev'.t >= getRefractoryPeriodEndsSec(anomalyTracker, aev'.key)
             /\ ~aev'.declared =>
                    anomalyTracker'.mRefractoryPeriodEndsSec =
                        anomalyTracker.mRefractoryPeriodEndsSec]_vars

\* C13: an anomaly was declared for a past bucket and a current value that
\* together exceed the threshold by one, and a subscription was informed.
C13_Witness ==
    /\ Detected /\ aev.declared /\ aev.informed = 1
    /\ PastSum(aev.key) > 0 /\ aev.value > 0
    /\ PastSum(aev.key) + aev.value = anomalyTracker.mAlert.trigger_if_sum_gt + 1

\* The second at which the refractory period of key ends according to the
\* declarations made so far, 0 when none was made.
RefractoryEnd(g, alert, key) ==
    IF key \in DOMAIN g.declared
    THEN g.declared[key] + alert.refractory_period_secs
    ELSE 0

\* C14: the refractory end of a key is the second of its latest declaration
\* plus the alert's refractory period, and 0 for a key never declared; no
\* anomaly is declared for the key before that end, and a breach at or after
\* it is declared again.
C14_RefractoryEnd ==
    /\ [](\A key \in Dims :
             getRefractoryPeriodEndsSec(anomalyTracker, key) =
                 RefractoryEnd(gAnomaly, anomalyTracker.mAlert, key))
    /\ [][Detected' =>
             LET end == RefractoryEnd(gAnomaly, anomalyTracker.mAlert, aev'.key)
                 breach == SumTold(gAnomaly'.window, DOMAIN gAnomaly'.window, aev'.key)
                               + aev'.value
                               > anomalyTracker.mAlert.trigger_if_sum_gt
             IN /\ aev'.t < end => ~aev'.declared
                /\ aev'.t >= end /\ breach => aev'.declared]_vars

\* C14: after a declaration for a key, a breach of the same key one second
\* before its refractory end was not declared.
C14_Witness ==
    /\ Detected /\ ~aev.declared /\ Breached
    /\ aev.key \in DOMAIN gAnomaly.declared
    /\ aev.t > gAnomaly.declared[aev.key]
    /\ aev.t + 1 = getRefractoryPeriodEndsSec(anomalyTracker, aev.key)
    /\ \E key \in Dims : getRefractoryPeriodEndsSec(anomalyTracker, key) = 0

\* C15: no operation of the tracker lowers its most recent bucket number.
C15_MostRecentNeverDecreases ==
    [][anomalyTracker'.mMostRecentBucketNum >= anomalyTracker.mMostRecentBucketNum]_vars

\* C15: a bucket with a number in the past was added and stored, and the
\* most recent bucket number stayed where it was.
C15_Witness ==
    /\ aev.kind = "addPastBucket"
    /\ aev.num >= 0 /\ aev.num < aev.from
    /\ anomalyTracker.mMostRecentBucketNum = aev.from
    /\ \E key \in Dims : getPastBucketValue(anomalyTracker, key, aev.num) > 0

\* The value of key in bucket b according to the buckets told of.
ToldValue(key, b) ==
    IF b \in DOMAIN gAnomaly.window THEN ValueIn(gAnomaly.window[b], key) ELSE 0

\* The bucket that ring slot i has to hold: the one of the last buckets told
\* of whose number is i modulo the size of the ring, if there is one.
ToldSlot(i) ==
    LET bs == {b \in DOMAIN gAnomaly.window :
                  b % anomalyTracker.mNumOfPastBuckets = i}
    IN IF bs = {} THEN <<>> ELSE gAnomaly.window[CHOOSE b \in bs : TRUE]

\* C16: every bucket reads through getPastBucketValue as the value last told
\* for it if it is among the last numPastBuckets and as 0 otherwise, the sum
\* of a key holds the values of those buckets alone, every ring slot holds
\* the bucket whose number is its index modulo numPastBuckets and nothing of
\* an older one, and after an advance from m to n every bucket strictly
\* between them reads 0.
C16_AdvanceClears ==
    /\ [](\A key \in Dims :
             /\ \A b \in 0..(MaxBucketNum + 1) :
                    getPastBucketValue(anomalyTracker, key, b) = ToldValue(key, b)
             /\ getSumOverPastBuckets(anomalyTracker, key) = PastSum(key))
    /\ [](\A i \in DOMAIN anomalyTracker.mPastBuckets :
             anomalyTracker.mPastBuckets[i] = ToldSlot(i))
    /\ [][\A key \in Dims :
             \A b \in (anomalyTracker.mMostRecentBucketNum + 1)
                          ..(anomalyTracker'.mMostRecentBucketNum - 1) :
                getPastBucketValue(anomalyTracker', key, b) = 0]_vars

\* C16: a ring of three buckets advanced from bucket 2 to bucket 4; bucket 2
\* is still stored, bucket 4 was added, and bucket 3 between them, whose
\* slot is the one of bucket 0, reads 0.
C16_Witness ==
    /\ aev.kind = "addPastBucket" /\ aev.from = 2 /\ aev.num = 4
    /\ anomalyTracker.mNumOfPastBuckets = 3
    /\ anomalyTracker.mMostRecentBucketNum = 4
    /\ \E key \in Dims :
           /\ getPastBucketValue(anomalyTracker, key, 2) > 0
           /\ getPastBucketValue(anomalyTracker, key, 3) = 0
           /\ getPastBucketValue(anomalyTracker, key, 4) > 0
           /\ getSumOverPastBuckets(anomalyTracker, key) =
                  getPastBucketValue(anomalyTracker, key, 2)
                      + getPastBucketValue(anomalyTracker, key, 4)

\* The calls that evaluate a condition or tell a metric of one.
ConditionCalls == {"evaluateCondition", "onConditionChanged", "onSlicedConditionMayChange"}

\* The calls that tell a metric of a condition.
ConditionNotices == {"onConditionChanged", "onSlicedConditionMayChange"}

\* The metrics linked to condition i.
LinkedTo(i) ==
    IF i \in DOMAIN mConditionToMetricMap THEN Range(mConditionToMetricMap[i]) ELSE {}

\* C17: among the calls made for one atom, every evaluation of a condition
\* and every notice of a condition precedes every notice of the matched
\* atom, and a metric linked to a condition that is told of the matched atom
\* handles it under the value the condition has after the atom.
C17_ConditionsBeforeMatched ==
    /\ \A i, j \in DOMAIN mev.trace :
           mev.trace[i].op = "onMatchedLogEvent" /\ mev.trace[j].op \in ConditionCalls
               => j < i
    /\ \A k \in DOMAIN mev.trace : \A i \in DOMAIN mConditionToMetricMap :
           mev.trace[k].op = "onMatchedLogEvent" /\ mev.trace[k].who \in LinkedTo(i)
               => manager.producers[mev.trace[k].who].handledUnder = manager.conditions[i]

\* C17: an atom stopped condition 1, metric 1 was told of the change and then
\* of the matched atom, which it handled under the new value.
C17_Witness ==
    \E i, j \in DOMAIN mev.trace :
        /\ i < j
        /\ mev.trace[i].op = "onConditionChanged" /\ mev.trace[i].who = 1
        /\ mev.trace[i].value = kFalse
        /\ mev.trace[j].op = "onMatchedLogEvent" /\ mev.trace[j].who = 1
        /\ manager.producers[1].handledUnder = kFalse

\* The matchers an atom satisfies, from the configuration.
Satisfied(event) ==
    {m \in {1, 2} : event.tag = m /\ event.field = 1}
        \cup (IF event.tag \in {1, 2} /\ event.field = 1 THEN {3} ELSE {})

\* The matchers that feed condition i.
Feeding(i) ==
    {m \in DOMAIN mTrackerToConditionMap : i \in Range(mTrackerToConditionMap[m])}

\* C18: a condition is evaluated for an atom only if the atom satisfies a
\* matcher that feeds it, and a metric is told of a condition only if it is
\* linked to a condition whose evaluation set the changed bit: through
\* onConditionChanged with the new value if the metric is not
\* condition-sliced, through onSlicedConditionMayChange otherwise.
C18_OnlyFedAndChanged ==
    \A k \in DOMAIN mev.trace :
        /\ mev.trace[k].op = "evaluateCondition"
               => Feeding(mev.trace[k].who) \cap Satisfied(mev.event) # {}
        /\ mev.trace[k].op \in ConditionNotices =>
               /\ \E j \in 1..(k - 1) :
                      /\ mev.trace[j].op = "evaluateCondition"
                      /\ mev.trace[j].value = "changed"
                      /\ mev.trace[k].who \in LinkedTo(mev.trace[j].who)
                      /\ mev.trace[k].value = manager.conditions[mev.trace[j].who]
               /\ mev.trace[k].op = "onConditionChanged"
                      <=> ~isConditionSliced(mev.trace[k].who)

\* C18: an atom started condition 1 alone; condition 2 was not evaluated,
\* metric 1 was told through onConditionChanged and the sliced metric 2
\* through onSlicedConditionMayChange.
C18_Witness ==
    /\ \E k \in DOMAIN mev.trace :
           mev.trace[k].op = "evaluateCondition" /\ mev.trace[k].who = 1
    /\ \A k \in DOMAIN mev.trace :
           mev.trace[k].op = "evaluateCondition" => mev.trace[k].who # 2
    /\ \E k \in DOMAIN mev.trace :
           /\ mev.trace[k].op = "onConditionChanged"
           /\ mev.trace[k].who = 1 /\ mev.trace[k].value = kTrue
    /\ \E k \in DOMAIN mev.trace :
           mev.trace[k].op = "onSlicedConditionMayChange" /\ mev.trace[k].who = 2

\* C19: for an atom whose tag is no key of the tag-to-matchers map no
\* matcher and no condition is evaluated, no metric is told of a matched
\* atom, a condition, an activation or a cancelled activation, and the
\* conditions stay as they were.
C19_UnknownTagDiscarded ==
    /\ [](mev.event.tag \notin DOMAIN mTagIdsToMatchersMap =>
             \A k \in DOMAIN mev.trace : mev.trace[k].op = "flushIfExpire")
    /\ [][mev'.event.tag \notin DOMAIN mTagIdsToMatchersMap =>
             /\ manager'.conditions = manager.conditions
             /\ \A metricIndex \in Metrics :
                    /\ manager'.producers[metricIndex].mCondition =
                           manager.producers[metricIndex].mCondition
                    /\ manager'.producers[metricIndex].handledUnder =
                           manager.producers[metricIndex].handledUnder]_vars

\* C19: an atom of tag 3, with its field set and from a permitted source,
\* went through a valid configuration as far as the lookup of its tag.
C19_Witness ==
    /\ mev.event.tag = 3 /\ mev.event.field = 1 /\ ~mev.event.headerOnly
    /\ manager.mConfigValid
    /\ mev.event.uid = AID_SYSTEM
    /\ mev.trace # <<>>
    /\ manager.conditions[1] = kTrue

\* Whether the source or the tag of an atom permits it.
Permitted(event) ==
    \/ event.tag \in mWhitelistedAtomIds
    \/ event.uid = AID_ROOT
    \/ (AID_SYSTEM <= event.uid /\ event.uid < AID_SHELL)
    \/ event.uid \in mAllowedLogSources

\* C20: an atom is processed only if the configuration is valid and the
\* atom's tag is whitelisted, or its uid is root or in [AID_SYSTEM,
\* AID_SHELL), or its uid is an allowed log source; for any other atom no
\* call is made and the manager, its conditions and its metrics stay as they
\* were.
C20_Credentials ==
    /\ [](mev.trace # <<>> => manager.mConfigValid /\ Permitted(mev.event))
    /\ [][~(manager.mConfigValid /\ Permitted(mev'.event)) => manager' = manager]_vars

\* C20: an atom of the shell uid with a tag that is not whitelisted would
\* have started condition 1 of a valid configuration and was dropped.
C20_Witness ==
    /\ manager.mConfigValid
    /\ mev.event.uid = AID_SHELL /\ mev.event.tag = 1 /\ mev.event.field = 1
    /\ ~mev.event.headerOnly
    /\ mev.trace = <<>>
    /\ manager.conditions[1] = kFalse

\* A step that closes the current bucket: the bucket start moves, or the
\* partial bucket is dumped.
ClosesBucket ==
    \/ mCurrentBucketStartTimeNs' # mCurrentBucketStartTimeNs
    \/ gPartials' # gPartials

\* C30: a key is tracked only from its first accepted start until all its
\* starts are stopped and its bucket is closed.  A tracked key has a start
\* outstanding or duration accumulated in the current bucket; a key becomes
\* tracked by an accepted start of it alone, so a stop of an untracked key
\* leaves it untracked; and a step that closes the bucket leaves no key
\* tracked that had no start outstanding before it and has none after it.
C30_TrackedWhileOutstanding ==
    /\ [](\A d \in Tracked : Refcount(d) > 0 \/ TrackerOf(d).mDuration > 0)
    /\ [](ev.res = "untracked" => ev.dim \notin Tracked)
    /\ [][\A d \in Dims :
             /\ (d \in Tracked' /\ d \notin Tracked) =>
                    (ev'.kind = "start" /\ ev'.dim = d /\ ev'.res = "created")
             /\ (ClosesBucket /\ gAccStarts[d] = 0 /\ gAccStarts'[d] = 0) =>
                    d \notin Tracked']_vars

\* C30: the last start of a key has been stopped inside a bucket, the key is
\* still tracked with the duration of that bucket, and closing the bucket at
\* its end removes the key.
C30_Witness ==
    /\ ev.kind = "stop"
    /\ ev.res = "stopped"
    /\ gAccStarts[1] = 0
    /\ 1 \in Tracked
    /\ TrackerOf(1).state = "idle"
    /\ TrackerOf(1).mDuration > 0
    /\ now < getCurrentBucketEndTimeNs(Self)
    /\ 1 \notin DOMAIN flushIfNeededLocked(Self, getCurrentBucketEndTimeNs(Self)).map

\* The past buckets of key d that the producer of metric i holds.
OwnedPast(mgr, i, d) ==
    IF d \in DOMAIN mgr.mAllMetricProducers[i].past
    THEN mgr.mAllMetricProducers[i].past[d]
    ELSE <<>>

\* Every past bucket the producer of metric i holds in mgr is still held,
\* in its place, in after.
NoneRemoved(mgr, after, i) ==
    \A d \in Dims :
        /\ Len(OwnedPast(after, i, d)) >= Len(OwnedPast(mgr, i, d))
        /\ SubSeq(OwnedPast(after, i, d), 1, Len(OwnedPast(mgr, i, d))) = OwnedPast(mgr, i, d)

LastReport(mgr) == <<mgr.mLastReportTimeNs, mgr.mLastReportWallClockNs>>

\* C28 (as amended): a report dump of a manager without a restricted-metrics
\* delegate removes the past buckets of the metrics it reports iff erase_data
\* is true.  With erase_data false no past bucket of a reported metric is
\* removed and the last-report timestamps are unchanged; with erase_data
\* true the past buckets of every producer are empty and the last-report
\* timestamps are those of the dump.  The past buckets of a metric listed as
\* no_report_metric are cleared by every dump, and the dump of a manager
\* with a restricted-metrics delegate changes nothing.
C28_EraseReported ==
    [][oev'.kind = "dump" =>
          IF hasRestrictedMetricsDelegate(owner)
          THEN owner' = owner
          ELSE /\ \A i \in owner.mNoReportMetricIds :
                      owner'.mAllMetricProducers[i].past = <<>>
               /\ IF oev'.erase_data
                  THEN /\ \A i \in OwnedMetricIds :
                              owner'.mAllMetricProducers[i].past = <<>>
                       /\ LastReport(owner') = <<oev'.t, getWallClockNs(oev'.t)>>
                  ELSE /\ \A i \in OwnedMetricIds \ owner.mNoReportMetricIds :
                              NoneRemoved(owner, owner', i)
                       /\ LastReport(owner') = LastReport(owner)]_vars

\* C28 as stated: with erase_data false no past bucket of any producer is
\* removed and the last-report timestamps are unchanged; with erase_data
\* true every producer's past buckets are empty and the last-report time is
\* the dump time.
C28_EraseIff ==
    [][oev'.kind = "dump" =>
          IF oev'.erase_data
          THEN /\ \A i \in OwnedMetricIds : owner'.mAllMetricProducers[i].past = <<>>
               /\ owner'.mLastReportTimeNs = oev'.t
          ELSE /\ \A i \in OwnedMetricIds : NoneRemoved(owner, owner', i)
               /\ LastReport(owner') = LastReport(owner)]_vars

\* C28: a dump without erase_data later than the last report has left a
\* reported metric with two past buckets, one of them closed by the dump,
\* and the last-report timestamps as they were.
C28_Witness ==
    /\ oev.kind = "dump"
    /\ ~oev.erase_data
    /\ ~hasRestrictedMetricsDelegate(owner)
    /\ owner.mNoReportMetricIds = {2}
    /\ Len(OwnedPast(owner, 1, 1)) = 2
    /\ OwnedPast(owner, 1, 1)[2].mBucketEndNs = oev.t
    /\ owner.mAllMetricProducers[2].past = <<>>
    /\ owner.mLastReportTimeNs < oev.t

\* C21: after a configuration update that was rejected (updateConfig
\* returned false), the manager's matchers, conditions, metric producers,
\* anomaly trackers and dispatch maps are those it had before the update.
C21_RejectedAsUnit ==
    (uev.kind = "update" /\ ~uev.returned) => Installed(updated) = uev.before

\* C21: an update of a manager with a valid configuration has been rejected
\* for a malformed metric, and has left the dispatch maps from matchers to
\* metrics and the list of producers empty, and the matchers of the
\* rejected config in place of those installed before.
C21_Witness ==
    /\ uev.kind = "update"
    /\ ~uev.returned
    /\ uev.valid
    /\ updated.mInvalidConfigReason = "metrics"
    /\ uev.before.mAllMetricProducers # <<>>
    /\ updated.mAllMetricProducers = <<>>
    /\ updated.mTrackerToMetricMap = <<>>
    /\ updated.mAllAtomMatchingTrackers # uev.before.mAllAtomMatchingTrackers

C24_CompleteListOnly ==
    /\ ~(sources.init.pc \in {"clear", "uids", "pkgs"} /\ sources.check.pc = "find")
    /\ sources.init.pc \in {"idle", "lock"} => sources.mAllowedLogSources = sev.complete
    /\ sev.kind = "decided" => sev.allowed = (sev.uid \in sev.complete)

\* C24: a check that waited for the lock while the list was being rebuilt
\* has let in a uid that the list before the rebuild did not hold, and the
\* uid map has changed since.
C24_Witness ==
    /\ sev.kind = "decided"
    /\ sev.allowed
    /\ sev.uid \notin sev.previous
    /\ sev.uid \in sev.complete
    /\ sev.complete # AllowedFrom(sources.uidMap)
    /\ sources.init.pc = "lock"

\* C22: the report of a configuration is the one it would write alone: it
\* carries the guardrail flag iff it carries data and the configuration's
\* own metric has dropped a key, whatever happened in the other
\* configuration and whatever metric ids the two use.
C22_ReportOfItsOwn ==
    xev.kind = "dump" =>
        xev.report.guardrailHit = (xev.report.data /\ xev.dropped[xev.config])

\* C22: configB, whose metric has the id of configA's metric, has written a
\* report with the guardrail flag although it has dropped no key; configA
\* has.
C22_Witness ==
    /\ xev.kind = "dump"
    /\ xev.config = "configB"
    /\ silos.mMetricId["configB"] = silos.mMetricId["configA"]
    /\ xev.report.guardrailHit
    /\ ~xev.dropped["configB"]
    /\ xev.dropped["configA"]
    /\ ~silos.producers["configB"].hit

\* the uid a matcher position selects in a chain, 0 where it selects none
Selected(position, chain) ==
    IF position = "LAST"
    THEN chain[Len(chain)]
    ELSE IF position = "FIRST"
         THEN chain[1]
         ELSE IF Len(chain) >= 2 THEN chain[2] ELSE 0

\* C29: two atoms give equal dimension keys iff the field the matcher selects
\* holds the same value in both, wherever in the chain it stands; equal keys
\* have equal hashes; and the two atoms are then counted under one
\* dimension, with count 2.
C29_EqualAfterMasking ==
    Len(kev.keys) = 2 =>
        LET a == kev.keys[1]
            b == kev.keys[2]
            same == Selected(keyed.position, kev.chains[1])
                        = Selected(keyed.position, kev.chains[2])
        IN /\ KeyEquals(a, b) <=> same
           /\ KeyEquals(a, b) => hashDimension(a) = hashDimension(b)
           /\ (same /\ a # <<>>) =>
                  /\ Cardinality(DOMAIN keyed.mCurrentSlicedCounter) = 1
                  /\ keyed.mCurrentSlicedCounter[a] = 2

\* C29: under a LAST matcher, an atom with the uid at position 5 and one with
\* the same uid at position 6 have been counted.
C29_Witness ==
    /\ keyed.position = "LAST"
    /\ Len(kev.chains) = 2
    /\ Len(kev.chains[1]) = 5
    /\ Len(kev.chains[2]) = 6
    /\ kev.chains[1][5] = kev.chains[2][6]
    /\ kev.chains[1][5] # kev.chains[2][5]
    /\ keyed.mCurrentSlicedCounter[kev.keys[1]] = 2

\* the dimensions the sampler admits: (hash of the sampled key + shard
\* offset) mod shard count is 0
Admitted(d) ==
    (hashDimension(SampledKey(d)) + sampled.mShardOffset) % sampled.mShardCount = 0

\* C27: only admitted dimensions have state or appear in a report; an event
\* of an admitted dimension is handled as it is without sampling; an event
\* of a dimension that is not admitted does no more than close the bucket,
\* and never reaches the guardrail.
C27_SampledByDimension ==
    /\ [](\A d \in DOMAIN sampled.p.map \cup DOMAIN sampled.p.past \cup zev.reported :
              Admitted(d))
    /\ [][(zev'.kind = "matched" /\ zev'.matcherIndex # mStopAllIndex) =>
              IF Admitted(zev'.dim)
              THEN sampled'.p = handleMatchedLogEventValuesLocked(
                                    sampled.p, zev'.matcherIndex, zev'.dim, zev'.t)
              ELSE /\ sampled'.p = flushIfNeededLocked(sampled.p, zev'.t)
                   /\ sampled'.hardDimensionLimitReached = sampled.hardDimensionLimitReached
         ]_vars

\* C27: with one dimension tracked and the limit of keys reached, a start of
\* a dimension that is not admitted has come, and the guardrail has not
\* been hit.
C27_Witness ==
    /\ zev.kind = "matched"
    /\ zev.matcherIndex = mStartIndex
    /\ ~Admitted(zev.dim)
    /\ Cardinality(DOMAIN sampled.p.map) = mDimensionHardLimit
    /\ \E d \in Dims : Admitted(d) /\ d \in DOMAIN sampled.p.past
    /\ ~sampled.hardDimensionLimitReached

\* the starts of dimension d that arrived in the bucket starting at s while
\* the condition of d was true, and the first of them
TrueIn(d, s) == {a \in gev.true[d] : BucketStartOf(a.mElapsedTimestampNs) = s}
FirstTrueIn(d, s) == CHOOSE a \in TrueIn(d, s) : \A b \in TrueIn(d, s) : a.serial <= b.serial

\* C25: under RANDOM_ONE_SAMPLE the current bucket and every closed bucket of
\* a dimension hold exactly one atom, the first of the bucket that arrived
\* with the condition true, and the report has such a bucket for every
\* bucket in which one arrived.
C25_OnePerBucket ==
    gauge.mSamplingType = RANDOM_ONE_SAMPLE =>
        \A d \in Dims :
            /\ d \in DOMAIN gauge.mCurrentSlicedBucket
                   <=> TrueIn(d, gauge.mCurrentBucketStartTimeNs) # {}
            /\ d \in DOMAIN gauge.mCurrentSlicedBucket =>
                   gauge.mCurrentSlicedBucket[d]
                       = <<FirstTrueIn(d, gauge.mCurrentBucketStartTimeNs)>>
            /\ d \in DOMAIN gauge.mPastBuckets =>
                   \A i \in DOMAIN gauge.mPastBuckets[d] :
                       gauge.mPastBuckets[d][i].mGaugeAtoms
                           = <<FirstTrueIn(d, gauge.mPastBuckets[d][i].mBucketStartNs)>>
            /\ (gev.kind = "dump" /\ gev.dumps = 1) =>
                   \A s \in GaugeTimes :
                       TrueIn(d, s) # {} <=>
                           /\ d \in DOMAIN gev.report
                           /\ \E i \in DOMAIN gev.report[d] :
                                  /\ gev.report[d][i].mBucketStartNs = s
                                  /\ gev.report[d][i].mGaugeAtoms = <<FirstTrueIn(d, s)>>

\* C25: three starts in the first bucket, of which the first came with the
\* condition false, one in the second and two in the third, all with the
\* condition true, and the report holds three buckets of one atom each.
C25_Witness ==
    /\ gauge.mSamplingType = RANDOM_ONE_SAMPLE
    /\ gev.kind = "dump"
    /\ gev.dumps = 1
    /\ {a.serial : a \in TrueIn(1, TimeBase)} = {2, 3}
    /\ {a.serial : a \in TrueIn(1, TimeBase + BucketSize)} = {1}
    /\ {a.serial : a \in TrueIn(1, TimeBase + 2 * BucketSize)} = {1, 2}
    /\ Len(gev.report[1]) = 3
    /\ \A i \in 1..3 : Len(gev.report[1][i].mGaugeAtoms) = 1

\* the atoms of a sequence of buckets
RECURSIVE AtomsOf(_)
AtomsOf(buckets) ==
    IF buckets = <<>>
    THEN {}
    ELSE Range(Head(buckets).mGaugeAtoms) \cup AtomsOf(Tail(buckets))

\* C26: every atom a dimension holds, in its current bucket, in a closed
\* bucket or in the report, arrived while the condition of that dimension
\* was true.
C26_OwnConditionOnly ==
    \A d \in Dims :
        /\ d \in DOMAIN gauge.mCurrentSlicedBucket =>
               Range(gauge.mCurrentSlicedBucket[d]) \subseteq gev.true[d]
        /\ d \in DOMAIN gauge.mPastBuckets => AtomsOf(gauge.mPastBuckets[d]) \subseteq gev.true[d]
        /\ d \in DOMAIN gev.report => AtomsOf(gev.report[d]) \subseteq gev.true[d]

\* C26: a dimension whose first start of the first bucket came before its
\* condition turned true and whose second start of the second bucket came
\* after it turned false again, while the condition of another dimension was
\* true; it holds the two starts between.
C26_Witness ==
    /\ gev.lone
    /\ \E d \in Dims :
        /\ d \in DOMAIN gauge.mPastBuckets
        /\ d \in DOMAIN gauge.mCurrentSlicedBucket
        /\ {a.serial : a \in TrueIn(d, TimeBase)} = {2}
        /\ {a.serial : a \in TrueIn(d, TimeBase + BucketSize)} = {1}
        /\ gev.seen[d] = 2
        /\ ~gauge.cond[d]
        /\ \E e \in Dims \ {d} : gauge.cond[e]
        /\ Len(gauge.mCurrentSlicedBucket[d]) = 1
        /\ AtomsOf(gauge.mPastBuckets[d]) = TrueIn(d, TimeBase)

\* the limit a memory field stands for: the field times 1024 when that lies
\* above 0 and at or below the hard maximum, the default otherwise
LimitMeant(field, default, hardMax) ==
    IF field.has /\ field.kb > 0 /\ field.kb <= hardMax \div 1024
    THEN field.kb * 1024
    ELSE default

\* C35: after an update the two limits are the ones the config's fields
\* stand for.
C35_LimitsFromConfig ==
    further.limits.updates > 0 =>
        /\ further.limits.mMaxMetricsBytes
               = LimitMeant(further.limits.config.max_metrics_memory_kb,
                            kDefaultMaxMetricsBytesPerConfig, kHardMaxMetricsBytesPerConfig)
        /\ further.limits.mTriggerGetDataBytes
               = LimitMeant(further.limits.config.soft_metrics_memory_kb,
                            kDefaultBytesPerConfigTriggerGetData, kHardMaxTriggerGetDataBytes)

\* C35: a config whose max_metrics_memory_kb is 2^22 + 1, whose product with
\* 1024 wraps to 1024, has left the manager with a limit of 1024 bytes.
C35_Witness ==
    /\ further.limits.updates > 0
    /\ further.limits.config.max_metrics_memory_kb = [has |-> TRUE, kb |-> 2 ^ 22 + 1]
    /\ further.limits.overflow = "wraps"
    /\ further.limits.mMaxMetricsBytes = 1024

\* C39: pullAndMatchEventsLocked is called, and the puller asked by the
\* alarm, only while the metric is active and its condition is true.
C39_PullsWhenNeeded ==
    further.pulled.call.by # "none" =>
        further.pulled.call.mIsActive /\ further.pulled.call.mCondition = kTrue

\* C39: an app upgrade has made an active RANDOM_ONE_SAMPLE metric whose
\* condition is false call pullAndMatchEventsLocked.
C39_Witness ==
    /\ further.pulled.call.by = "notifyAppUpgrade"
    /\ further.pulled.call.mIsActive
    /\ further.pulled.call.mCondition = kFalse
    /\ further.pulled.mSamplingType = RANDOM_ONE_SAMPLE

\* C32: while the condition of the metric is unknown a start is recorded as
\* it is under a false condition: its tracker is paused and holds no
\* duration, no past bucket is written, and the tracker runs from the moment
\* the condition is reported true.
C32_UnknownAsFalse ==
    /\ [](mCondition = kUnknown =>
            /\ mPastBuckets = <<>>
            /\ \A d \in DOMAIN mCurrentSlicedDurationTrackerMap :
                   LET tr == mCurrentSlicedDurationTrackerMap[d]
                   IN tr.state = "paused" /\ tr.mDuration = 0 /\ tr.lastDuration = 0)
    /\ [][(mCondition = kUnknown /\ ev'.kind = "start") =>
             /\ ev'.dim \in DOMAIN mCurrentSlicedDurationTrackerMap'
             /\ mCurrentSlicedDurationTrackerMap'[ev'.dim].state = "paused"]_vars
    /\ [][(mCondition = kUnknown /\ mCondition' = kTrue) =>
             \A d \in DOMAIN mCurrentSlicedDurationTrackerMap' :
                 LET tr == mCurrentSlicedDurationTrackerMap'[d]
                 IN tr.state = "running" /\ tr.mLastStartTime = now']_vars

\* C32: a start made while the condition was unknown is still outstanding
\* at a dump in a later bucket, the condition still unknown.
C32_Witness ==
    /\ mCondition = kUnknown
    /\ 1 \in DOMAIN mCurrentSlicedDurationTrackerMap
    /\ mCurrentSlicedDurationTrackerMap[1].state = "paused"
    /\ mCurrentBucketNum > 0
    /\ ev.kind = "dump"

\* C38: the condition timer of a metric with an unsliced condition runs
\* exactly while the metric is active and its condition is true, a tracker
\* with a start outstanding runs exactly then and is paused otherwise, and a
\* start received while the metric is inactive leaves its key's tracker
\* paused.
C38_RunsWhileActiveAndTrue ==
    /\ [](further.unbucketed.has_bucket =>
            /\ further.mConditionTimer.mCondition <=> (mIsActive /\ mCondition = kTrue)
            /\ \A d \in DOMAIN mCurrentSlicedDurationTrackerMap :
                   LET tr == mCurrentSlicedDurationTrackerMap[d]
                   IN tr.state # "idle" =>
                          (tr.state = "running" <=> (mIsActive /\ mCondition = kTrue)))
    /\ [][(~mIsActive /\ ev'.kind = mStartIndex) =>
             /\ ev'.dim \in DOMAIN mCurrentSlicedDurationTrackerMap'
             /\ mCurrentSlicedDurationTrackerMap'[ev'.dim].state = "paused"]_vars

\* C38: a start has just been received by an inactive metric whose
\* condition is true, and its tracker is paused.
C38_Witness ==
    /\ ~mIsActive
    /\ mCondition = kTrue
    /\ ev.kind = mStartIndex
    /\ ev.res = "inactive"
    /\ 1 \in DOMAIN mCurrentSlicedDurationTrackerMap
    /\ mCurrentSlicedDurationTrackerMap[1].state = "paused"
    /\ ~further.mConditionTimer.mCondition

\* The bucket number and the bucket start of a metric with a bucket never
\* decrease.
BucketsAdvance ==
    [][further.unbucketed.has_bucket =>
           /\ mCurrentBucketNum' >= mCurrentBucketNum
           /\ mCurrentBucketStartTimeNs' >= mCurrentBucketStartTimeNs]_vars

\* An event, a condition change or a dump at or after the bucket start that
\* an active metric with a bucket has processed lies in the current bucket.
EventInBucket ==
    [][(/\ further.unbucketed.has_bucket
        /\ mIsActive /\ mIsActive'
        /\ ev'.kind \in {mStartIndex, mStopIndex, mStopAllIndex, "condition", "dump"}
        /\ now' >= mCurrentBucketStartTimeNs) =>
           /\ mCurrentBucketStartTimeNs' <= now'
           /\ now' < TimeBase + (mCurrentBucketNum' + 1) * BucketSize]_vars

\* A metric without a bucket stays in the bucket it was constructed in.
NeverRollsOver ==
    [](~further.unbucketed.has_bucket /\ ~further.unbucketed.aborted =>
          /\ further.unbucketed.mCurrentBucketNum = 0
          /\ further.unbucketed.mCurrentBucketStartTimeNs
                 = Wide(0, further.unbucketed.startTimeNs))

\* C40: the bucket number and the bucket start never decrease, an event at
\* or after the bucket start that an active metric has processed lies in
\* the current bucket, also several buckets ahead, and a metric without a
\* bucket (bucket size LLONG_MAX) never rolls over.
C40_EventInCurrentBucket == BucketsAdvance /\ EventInBucket /\ NeverRollsOver

\* C40: a metric without a bucket, on a build whose 64-bit arithmetic
\* wraps, has left its first bucket for one that starts before the time base.
C40_Witness ==
    /\ ~further.unbucketed.has_bucket
    /\ further.unbucketed.overflow = "wraps"
    /\ further.unbucketed.mTimeBaseNs = 1
    /\ further.unbucketed.startTimeNs = 1
    /\ further.unbucketed.mCurrentBucketNum = 1
    /\ further.unbucketed.mCurrentBucketStartTimeNs = Wide(-1, -1)

\* The indices at which the calls made for the latest atom hold a call of
\* op on the metric.
CallsOf(op, metricIndex) ==
    {i \in DOMAIN further.activated.last.trace :
        /\ further.activated.last.trace[i].op = op
        /\ further.activated.last.trace[i].who = metricIndex}

\* C34: the manager is active iff its config is always active (some metric
\* has no activation) or some metric with an activation is active; and after
\* an atom that passed the checks every metric still active has an
\* activation that outlasts the atom's timestamp.
C34_ActiveIffSomeMetricIs ==
    LET mgr == further.activated
        withActivation == Range(mgr.mMetricIndexesWithActivation)
    IN /\ mgr.mIsAlwaysActive <=> withActivation # Metrics
       /\ mgr.mIsActive <=>
              (mgr.mIsAlwaysActive \/ \E metric \in withActivation : mgr.producers[metric].mIsActive)
       /\ (mgr.last.op = "onLogEvent" /\ mgr.last.passed) =>
              \A metric \in withActivation :
                  mgr.producers[metric].mIsActive => mgr.last.t < mgr.producers[metric].expire

\* C34: a manager all of whose metrics have an activation has processed an
\* atom after which none of them is active, having been active before.
C34_Witness ==
    /\ further.activated.name = "all"
    /\ further.activated.last.op = "onLogEvent"
    /\ further.activated.last.passed
    /\ further.activated.last.t > 0
    /\ ~further.activated.mIsActive
    /\ \E metric \in Metrics : further.activated.producers[metric].expire > 0

\* C37: when the calls made for an atom hold a cancellation and an
\* activation of the same metric, the cancellation comes first, and the
\* metric and the manager are active once the atom is processed.
C37_CancelThenActivate ==
    \A metric \in Metrics :
        (CallsOf("cancelEventActivation", metric) # {} /\ CallsOf("activate", metric) # {}) =>
            /\ \A i \in CallsOf("cancelEventActivation", metric),
                  j \in CallsOf("activate", metric) : i < j
            /\ further.activated.producers[metric].mIsActive
            /\ further.activated.mIsActive

\* C37: an atom has cancelled and activated metric 3 of a config that is not
\* always active, and no other metric is active.
C37_Witness ==
    /\ further.activated.name = "all"
    /\ CallsOf("cancelEventActivation", 3) # {}
    /\ CallsOf("activate", 3) # {}
    /\ further.activated.producers[3].mIsActive

\* The positions of a list of ids that hold the id.
PositionsOf(ids, id) == SelectSeq([i \in DOMAIN ids |-> i], LAMBDA i : ids[i] = id)

\* C36: loadMetadata hands each tracker and each producer the entries with
\* its id, in their order, and no other: the entries whose id the config
\* does not hold touch no tracker and no producer, and the others are loaded.
C36_UnknownIdsSkipped ==
    LET mgr == further.loaded
    IN /\ ~mgr.crashed
       /\ \A alertId \in DOMAIN mAlertTrackerMap :
              mgr.mAllAnomalyTrackers[mAlertTrackerMap[alertId]]
                  = PositionsOf(mgr.metadata.alert_metadata, alertId)
       /\ \A metricId \in DOMAIN mMetricProducerMap :
              mgr.mAllMetricProducers[mMetricProducerMap[metricId]]
                  = PositionsOf(mgr.metadata.metric_metadata, metricId)

\* C36: metadata of metric 3, which the config does not hold, then of
\* metric 1 was handed over: the process ended before metric 1 was loaded.
C36_Witness ==
    /\ further.loaded.metadata.metric_metadata = <<3, 1>>
    /\ further.loaded.metadata.alert_metadata = <<3, 1>>
    /\ further.loaded.crashed
    /\ further.loaded.mAllAnomalyTrackers[1] = <<2>>
    /\ further.loaded.mAllMetricProducers[1] = <<>>

\* C33 (as amended): a tracker holds at most one pending alarm per key, in
\* its map and in the alarm monitor; an alarm that fired has exactly one
\* declaration, by informAlarmsFired; an alarm stopped after its deadline
\* has exactly one, by stopAlarm; an alarm stopped before its deadline,
\* replaced or cancelled has none; no alarm is consumed by two trackers;
\* and an alarm that is due stops pending.
AlarmPending(a) == further.alarms.fate[a] = "pending"

AlarmDue(a) == AlarmPending(a) /\ further.alarms.now >= further.alarms.timestampSec[a]

OnePendingAlarmPerKey ==
    \A k \in AlarmKeys :
        /\ Cardinality({a \in AlarmIds : AlarmPending(a) /\ further.alarms.madeFor[a] = k}) <= 1
        /\ Cardinality({a \in further.alarms.monitor : further.alarms.madeFor[a] = k}) <= 1
        /\ \A a \in AlarmIds :
               (AlarmPending(a) /\ further.alarms.madeFor[a] = k) => further.alarms.mAlarms[k] = a

DeclaredByOne ==
    \A a \in AlarmIds :
        LET al == further.alarms
        IN /\ al.fate[a] = "fired" => al.declaredBy[a] = <<"informAlarmsFired">>
           /\ al.fate[a] = "stopped" =>
                  al.declaredBy[a] = IF al.late[a] THEN <<"stopAlarm">> ELSE <<>>
           /\ al.fate[a] \in {"unused", "pending", "replaced", "cancelled"} =>
                  al.declaredBy[a] = <<>>
           /\ Cardinality(al.consumedBy[a]) <= 1
           /\ al.consumedBy[a] \subseteq {al.madeFor[a][1]}

C33_OneDeclarationPerAlarm ==
    /\ [](OnePendingAlarmPerKey /\ DeclaredByOne)
    /\ \A a \in AlarmIds : AlarmDue(a) ~> ~AlarmPending(a)

\* C33 witness: one alarm was popped by the monitor and then stopped before
\* the manager was told, another was declared by informAlarmsFired, and
\* nothing is left to deliver.
C33_Witness ==
    /\ further.alarms.firedAlarms = {}
    /\ \E a \in further.alarms.popped :
           /\ further.alarms.fate[a] = "stopped"
           /\ further.alarms.declaredBy[a] = <<"stopAlarm">>
    /\ \E b \in AlarmIds : further.alarms.declaredBy[b] = <<"informAlarmsFired">>

\* C33 as stated: every alarm that left its tracker after its deadline has
\* exactly one declaration.
C33_DeclaredWheneverLate ==
    \A a \in AlarmIds :
        (further.alarms.late[a] /\ ~AlarmPending(a)) => Len(further.alarms.declaredBy[a]) = 1

\* C31: every live duration tracker has the same condition on the fast
\* path as on the path that asks the wizard again for each tracker.
C31_FastAsSlow ==
    further.sliced.mCurrentSlicedDurationTrackerMap = further.sliced.requeried

\* The two paths agree as long as no event moved the unsliced part and a
\* sliced dimension together.
FastAsSlowApart == ~further.sliced.together => C31_FastAsSlow

\* C31 witness: the unsliced part and a sliced dimension moved in one
\* event while a duration was live whose dimension the child holds.
C31_Witness ==
    /\ further.sliced.together
    /\ ~further.sliced.IsSimpleCondition
    /\ further.sliced.dimensionsChangedToTrue \cup further.sliced.dimensionsChangedToFalse # {}
    /\ \E w \in DOMAIN further.sliced.requeried :
           /\ further.sliced.slicedDimensionMap[LinkedDimension(w)] > 0
           /\ LinkedDimension(w) \notin further.sliced.dimensionsChangedToTrue

====
